---- MODULE Spec2Model ----
(***************************************************************************)
(* Backing-service binding engine of the Nuxeo operator.                   *)
(*                                                                         *)
(* One reconciliation pass (configureBackingServices) is one action: it    *)
(* walks the bindings of the custom resource in declaration order, reads   *)
(* upstream objects from the cluster store, fills the deployment draft and *)
(* the per-binding secondary-secret draft, and reconciles each secondary   *)
(* secret with the cluster store.  Between passes the environment may edit *)
(* the custom resource, write or delete upstream objects, and put a Secret *)
(* of another owner where a secondary secret would go.  The projection     *)
(* validator is also checked on its own, as a pure function, under         *)
(* SpecValid, and the projection handlers one projection at a time, on the *)
(* drafts of one binding, under SpecApply.  SpecOnce runs passes over      *)
(* longer binding lists that include preconfigured bindings, SpecNames     *)
(* over lists whose binding names repeat or differ in letter case,         *)
(* SpecCalls calls the resource locator and the binding validity check on  *)
(* their own, SpecNodeSet reconciles the node set of the custom resource   *)
(* with its Deployment (reconcileNodeSet), and SpecDuo interleaves the     *)
(* passes of two instances of one namespace.                               *)
(***************************************************************************)
EXTENDS Integers, Sequences, FiniteSets, TLC

\* ------------------------------------------------------------------ bounds
\* highest resource version an upstream object takes
MaxVer == 2
\* a pass may see its n-th cluster call fail, n in 1..MaxFault (0: none fails)
MaxFault == 2
\* longest projection list handed to the validator under SpecValid
MaxProjs == 2
\* most projections applied to one binding's drafts under SpecApply
MaxSteps == 4
\* most passes of one instance under SpecDuo
MaxPasses == 2
\* longest binding list of the custom resource under SpecOnce
MaxBindings == 3
\* highest replica count of the node set under SpecNodeSet
MaxReplicas == 3
\* longest storage list of a node set handed to handleStorage under SpecCalls
MaxStorage == 2

\* ------------------------------------------------------------ byte values
\* A byte blob is one of: nil, the raw content of upstream object src at
\* version ver, a trust store built from such content with password pw, or
\* the password pw itself.
Nil == [kind |-> "nil", src |-> "", ver |-> 0, pw |-> 0]

Raw(src, ver) == [kind |-> "raw", src |-> src, ver |-> ver, pw |-> 0]

StoreOf(raw, pw) == [kind |-> "store", src |-> raw.src, ver |-> raw.ver, pw |-> pw]

PassOf(pw) == [kind |-> "pass", src |-> "", ver |-> 0, pw |-> pw]

\* Go maps: a lookup of an absent key yields the zero value
EmptyData == [k \in {} |-> Nil]

EmptyAnn == [k \in {} |-> 0]

MapGet(m, k) == IF k \in DOMAIN m THEN m[k] ELSE Nil

MapPut(m, k, v) == [x \in (DOMAIN m) \cup {k} |-> IF x = k THEN v ELSE m[x]]

\* ------------------------------------------------------------ API types
NoTransform == [Type |-> "", Store |-> "", Password |-> "", PassEnv |-> ""]

NoPreconfigured == [Type |-> ""]

Projection(key, path, env, mount, transform) ==
    [Key |-> key, Path |-> path, Env |-> env, Mount |-> mount, Transform |-> transform]

Resource(group, version, kind, name, projections) ==
    [Group |-> group, Version |-> version, Kind |-> kind, Name |-> name,
     Projections |-> projections]

BackingService(name, resources, conf) ==
    [Name |-> name, Resources |-> resources, NuxeoConf |-> conf,
     Preconfigured |-> NoPreconfigured]

\* strings.ToLower on the strings the model uses
ToLower(s) ==
    CASE s = "Secret" -> "secret"
      [] s = "SECRET" -> "secret"
      [] s = "ConfigMap" -> "configmap"
      [] s = "Service" -> "service"
      [] s = "Route" -> "route"
      [] s = "V1" -> "v1"
      [] s = "B1" -> "b1"
      [] s = "B2" -> "b2"
      [] OTHER -> s

\* gvk as configureBackingService, isSecret and isConfigMap compute it
GvkOf(resource) ==
    ToLower(resource.Group) \o "." \o ToLower(resource.Version) \o "." \o ToLower(resource.Kind)

isSecret(resource) == GvkOf(resource) = ".v1.secret"

isConfigMap(resource) == GvkOf(resource) = ".v1.configmap"

\* ---------------------------------------------------- projection validator
\* the validator as written; MutValidNoPath drops the "must not specify
\* .path" test of the Secret/ConfigMap branch
MutValidNoPath(gvk, projections) ==
    \A i \in 1..Len(projections) :
        LET projection == projections[i] IN
        IF gvk = ".v1.secret" \/ gvk = ".v1.configmap"
        THEN ~(projection.Key = ""
               \/ (projection.Env = "" /\ projection.Mount = ""
                   /\ projection.Transform = NoTransform))
        ELSE ~(projection.Key # "" \/ projection.Path = "" \/ projection.Env # ""
               \/ (projection.Mount = "" /\ projection.Transform = NoTransform))

projectionsAreValid(gvk, projections) ==
    \A i \in 1..Len(projections) :
        LET projection == projections[i] IN
        IF gvk = ".v1.secret" \/ gvk = ".v1.configmap"
        THEN ~(projection.Key = "" \/ projection.Path # ""
               \/ (projection.Env = "" /\ projection.Mount = ""
                   /\ projection.Transform = NoTransform))
        ELSE ~(projection.Key # "" \/ projection.Path = "" \/ projection.Env # ""
               \/ (projection.Mount = "" /\ projection.Transform = NoTransform))

\* reflect.DeepEqual(backing.Resources, BackingServiceResource{}) compares a
\* slice with a struct: the types differ, so it is false for every slice
ResourcesDeepEqualEmptyStruct(resources) == FALSE

backingSvcIsValid(backing) ==
    IF backing.Preconfigured # NoPreconfigured
    THEN TRUE
    ELSE backing.Name # "" /\ ~ResourcesDeepEqualEmptyStruct(backing.Resources)

\* ------------------------------------------------------------ cluster store
\* An object of the cluster store.  rv is its resource version (0 renders
\* the empty token), data its key -> bytes map (for a typed object other
\* than Secret/ConfigMap: path expression -> bytes), ann its annotations,
\* owners the UIDs of its owner references.  A record with exists = FALSE
\* is an object that is not in the store.
NoObj == [exists |-> FALSE, rv |-> 0, data |-> EmptyData, ann |-> EmptyAnn, owners |-> {}]

Obj(rv, data, ann, owners) ==
    [exists |-> TRUE, rv |-> rv, data |-> data, ann |-> ann, owners |-> owners]

\* State threaded through one pass:
\*   cluster  the cluster store as the pass sees and writes it
\*   calls    cluster calls issued so far;  fault: the call that fails (0: none)
\*   ops      the creates, updates and deletes issued, in order
\*   dep      the deployment draft;  sec: the current binding's secret draft
\*   log      what each binding did (cache hits, transforms run, reconciles)
\*   pre      the cluster store before the pass
PassState(cluster, dep, fault) ==
    [cluster |-> cluster, calls |-> 0, fault |-> fault, ops |-> <<>>, dep |-> dep,
     sec |-> [Name |-> "", data |-> EmptyData, ann |-> EmptyAnn, owners |-> {}],
     log |-> <<>>, pre |-> cluster]

\* r.client.Get: the object, not-found, or another error (the faulted call)
Called(st) == [st EXCEPT !.calls = @ + 1]

Faulted(st) == st.calls + 1 = st.fault

ClientGet(st, key) ==
    IF Faulted(st)
    THEN [st |-> Called(st), res |-> "error", obj |-> NoObj]
    ELSE IF key \in DOMAIN st.cluster /\ st.cluster[key].exists
         THEN [st |-> Called(st), res |-> "ok", obj |-> st.cluster[key]]
         ELSE [st |-> Called(st), res |-> "notfound", obj |-> NoObj]

\* r.client.Create / Update / Delete: err is "" on success
ClientWrite(st, op, key, obj) ==
    IF Faulted(st)
    THEN [st |-> Called(st), err |-> "cluster"]
    ELSE [st |-> [st EXCEPT !.calls = @ + 1,
                            !.cluster[key] = obj,
                            !.ops = Append(@, [op |-> op, key |-> key])],
          err |-> ""]

\* the store key of a Secret
SecretKey(name) == <<".v1.secret", name>>

\* r.scheme.New: the typed kinds the scheme knows besides Secret/ConfigMap
SchemeKnows(resource) ==
    resource.Group = "" /\ resource.Version = "v1" /\ resource.Kind = "Service"

\* ---------------------------------------------------------- resource locator
\* returns [st, val, ver, err]
NoValue(st, err) == [st |-> st, val |-> Nil, ver |-> 0, err |-> err]

\* MutNotFoundIsError reports an object that is not there as an error
MutNotFoundIsError(got, name) ==
    IF got.res = "notfound" THEN NoValue(got.st, "notfound")
    ELSE IF got.res = "error" THEN NoValue(got.st, "cluster")
    ELSE [st |-> got.st, val |-> MapGet(got.obj.data, name), ver |-> got.obj.rv,
          err |-> ""]

\* what the locator returns once the Get has answered
ValueOfGot(got, name) ==
    IF got.res = "notfound" THEN NoValue(got.st, "")
    ELSE IF got.res = "error" THEN NoValue(got.st, "cluster")
    ELSE [st |-> got.st, val |-> MapGet(got.obj.data, name), ver |-> got.obj.rv,
          err |-> ""]

getValueFromResource(st, resource, idx) ==
    IF GvkOf(resource) = ".v1.secret" \/ GvkOf(resource) = ".v1.configmap"
    THEN IF resource.Projections[idx].Key = ""
         THEN NoValue(st, "no key provided in projection")
         ELSE ValueOfGot(ClientGet(st, <<GvkOf(resource), resource.Name>>),
                         resource.Projections[idx].Key)
    ELSE IF resource.Projections[idx].Path = ""
         THEN NoValue(st, "no path provided in projection")
         ELSE IF ~SchemeKnows(resource)
              THEN NoValue(st, "scheme")
              ELSE ValueOfGot(ClientGet(st, <<GvkOf(resource), resource.Name>>),
                              resource.Projections[idx].Path)

\* ----------------------------------------------------- secondary secret cache
genAnnotationKey(resource) ==
    IF ToLower(resource.Group) = ""
    THEN "nuxeo.operator." \o ToLower(resource.Version) \o "." \o ToLower(resource.Kind)
             \o "." \o ToLower(resource.Name)
    ELSE "nuxeo.operator." \o ToLower(resource.Group) \o "." \o ToLower(resource.Version)
             \o "." \o ToLower(resource.Kind) \o "." \o ToLower(resource.Name)

\* MutSecondaryNamedBinding names the secondary secret <instance>-<binding>-binding
MutSecondaryNamedBinding(instance, backingService) ==
    [Name |-> instance.Name \o "-" \o backingService.Name \o "-binding",
     data |-> EmptyData, ann |-> EmptyAnn, owners |-> {instance.UID}]

defaultSecondarySecret(instance, backingService) ==
    [Name |-> instance.Name \o "-secondary-" \o backingService.Name,
     data |-> EmptyData, ann |-> EmptyAnn, owners |-> {instance.UID}]

\* returns [st, current]; MutIsCurrentIgnoresVersion is the check that
\* looks for the annotation and not at its value
IgnoresVersionOfGot(got, expectedAnnotation, resourceVersion) ==
    [st |-> got.st, current |-> got.res = "ok" /\ expectedAnnotation \in DOMAIN got.obj.ann]

MutIsCurrentIgnoresVersion(st, secondarySecret, resource, resourceVersion) ==
    IgnoresVersionOfGot(ClientGet(st, SecretKey(secondarySecret)),
                        genAnnotationKey(resource), resourceVersion)

\* what the check answers once the Get has answered: any error is "not current"
IsCurrentOfGot(got, expectedAnnotation, resourceVersion) ==
    IF got.res # "ok"
    THEN [st |-> got.st, current |-> FALSE]
    ELSE IF expectedAnnotation \in DOMAIN got.obj.ann
         THEN [st |-> got.st, current |-> got.obj.ann[expectedAnnotation] = resourceVersion]
         ELSE [st |-> got.st, current |-> FALSE]

secondarySecretIsCurrent(st, secondarySecret, resource, resourceVersion) ==
    IsCurrentOfGot(ClientGet(st, SecretKey(secondarySecret)),
                   genAnnotationKey(resource), resourceVersion)

\* copies keys from the in-cluster secret into the draft; returns [st, err]
RECURSIVE CopyKeys(_, _, _)
CopyKeys(data, from, keys) ==
    IF keys = <<>> THEN data
    ELSE CopyKeys(MapPut(data, Head(keys), MapGet(from, Head(keys))), from, Tail(keys))

LoadedOfGot(got, annotation, resVer, keys) ==
    IF got.res # "ok"
    THEN [st |-> got.st, err |-> "cluster"]
    ELSE [st |-> [got.st EXCEPT !.sec.ann = MapPut(@, annotation, resVer),
                                !.sec.data = CopyKeys(@, got.obj.data, keys)],
          err |-> ""]

loadSecondary(st, resource, resVer, keys) ==
    LoadedOfGot(ClientGet(st, SecretKey(st.sec.Name)), genAnnotationKey(resource),
                resVer, keys)

\* ------------------------------------------------------------ transform engine
\* Passwords are opaque: only equality between them is ever observed.  A
\* newly generated password is rendered as the least number that no blob of
\* the cluster store (before or during the pass) or of the draft carries.
PwsOfData(data) == {data[k].pw : k \in DOMAIN data}

UsedPws(st) ==
    {0} \cup PwsOfData(st.sec.data)
        \cup UNION {PwsOfData(st.cluster[k].data) : k \in DOMAIN st.cluster}
        \cup UNION {PwsOfData(st.pre[k].data) : k \in DOMAIN st.pre}

FreshPw(st) ==
    LET used == UsedPws(st)
        free == {n \in 1..(Cardinality(used) + 1) : n \notin used}
    IN CHOOSE n \in free : \A m \in free : n <= m

\* returns [store, pass, err]: no certificate in the value is an error
toTrustStoreFromBytes(st, resVal) ==
    IF resVal.kind # "raw"
    THEN [store |-> Nil, pass |-> Nil, err |-> "transform"]
    ELSE [store |-> StoreOf(resVal, FreshPw(st)), pass |-> PassOf(FreshPw(st)), err |-> ""]

\* returns [st, err]
\* the draft takes the store and the password unless the transform failed
PopulatedOf(st, ts, storeKey, passKey) ==
    IF ts.err # ""
    THEN [st |-> st, err |-> ts.err]
    ELSE [st |-> [st EXCEPT !.sec.data = MapPut(MapPut(@, storeKey, ts.store),
                                                passKey, ts.pass)],
          err |-> ""]

\* the transform runs on the draft that carries the annotation already
PopulateAnnotated(st, storeKey, passKey, resVal) ==
    PopulatedOf(st, toTrustStoreFromBytes(st, resVal), storeKey, passKey)

\* MutPopulateNoAnnotation fills the draft and leaves the annotation out
MutPopulateNoAnnotation(st, resource, storeKey, passKey, resVer, resVal) ==
    PopulateAnnotated(st, storeKey, passKey, resVal)

populateSecondaryNew(st, resource, storeKey, passKey, resVer, resVal) ==
    PopulateAnnotated([st EXCEPT !.sec.ann = MapPut(@, genAnnotationKey(resource), resVer)],
                      storeKey, passKey, resVal)

\* --------------------------------------------------------------- merge utils
KeyToPath(key, path) == [Key |-> key, Path |-> path]

\* a projection source of a projected volume: Kind is "secret" or "configmap"
VolumeProjection(kind, name, items) == [Kind |-> kind, Name |-> name, Items |-> items]

Volume(name, sources) == [Name |-> name, Projected |-> TRUE, Sources |-> sources]

sameSrc(src1, src2) == src1.Kind = src2.Kind /\ src1.Name = src2.Name

\* adds the incoming items to curItems; returns [items, err]
RECURSIVE MergeItems(_, _)
MergeItems(curItems, toAddItems) ==
    IF toAddItems = <<>> THEN [items |-> curItems, err |-> ""]
    ELSE LET itemToAdd == Head(toAddItems)
             clash == \E i \in 1..Len(curItems) :
                         curItems[i].Key = itemToAdd.Key /\ curItems[i].Path # itemToAdd.Path
             exists == \E i \in 1..Len(curItems) : curItems[i].Key = itemToAdd.Key
         IN
         IF clash THEN [items |-> curItems, err |-> "merge"]
         ELSE MergeItems(IF exists THEN curItems ELSE Append(curItems, itemToAdd),
                         Tail(toAddItems))

\* returns [dep, err].  The loop over the sources of the matching volume
\* returns in its first iteration: only the first source is compared.
addVolumeProjectionAndItems(dep, toAdd) ==
    IF ~toAdd.Projected \/ Len(toAdd.Sources) # 1
    THEN [dep |-> dep, err |-> "merge"]
    ELSE
    LET matching == {i \in 1..Len(dep.volumes) :
                        dep.volumes[i].Name = toAdd.Name
                        /\ (~dep.volumes[i].Projected \/ dep.volumes[i].Sources # <<>>)}
    IN
    IF matching = {}
    THEN [dep |-> [dep EXCEPT !.volumes = Append(@, toAdd)], err |-> ""]
    ELSE
    LET i == CHOOSE j \in matching : \A k \in matching : j <= k
        vol == dep.volumes[i]
    IN
    IF ~vol.Projected
    THEN [dep |-> dep, err |-> "merge"]
    ELSE IF sameSrc(vol.Sources[1], toAdd.Sources[1])
         THEN LET m == MergeItems(vol.Sources[1].Items, toAdd.Sources[1].Items) IN
              [dep |-> [dep EXCEPT !.volumes[i].Sources[1].Items = m.items], err |-> m.err]
         ELSE [dep |-> [dep EXCEPT !.volumes[i].Sources = Append(@, toAdd.Sources[1])],
               err |-> ""]

VolumeMount(name, path) == [Name |-> name, ReadOnly |-> TRUE, MountPath |-> path]

\* MutAddVolMntAppends adds the mount without looking for one of that name
MutAddVolMntAppends(dep, mntToAdd) ==
    [dep |-> [dep EXCEPT !.mounts = Append(@, mntToAdd)], err |-> ""]

\* returns [dep, err]
addVolMnt(dep, mntToAdd) ==
    IF \E i \in 1..Len(dep.mounts) : dep.mounts[i].Name = mntToAdd.Name
    THEN LET i == CHOOSE j \in 1..Len(dep.mounts) :
                     /\ dep.mounts[j].Name = mntToAdd.Name
                     /\ \A k \in 1..(j - 1) : dep.mounts[k].Name # mntToAdd.Name
         IN IF dep.mounts[i] # mntToAdd
            THEN [dep |-> dep, err |-> "mount"]
            ELSE [dep |-> dep, err |-> ""]
    ELSE [dep |-> [dep EXCEPT !.mounts = Append(@, mntToAdd)], err |-> ""]

\* -------------------------------------------------------- projection applier
backingMountBase == "/etc/nuxeo-operator/binding/"

EnvVar(name, from, ref, key) == [Name |-> name, From |-> from, Ref |-> ref, Key |-> key]

LogEv(ev, name, key, data) == [ev |-> ev, name |-> name, key |-> key, data |-> data]

\* util.GetEnv(container, name) != nil
HasEnv(dep, name) == \E i \in 1..Len(dep.env) : dep.env[i].Name = name

\* util.OnlyAdd: the variable is added unless one of that name exists
OnlyAdd(dep, env) ==
    IF HasEnv(dep, env.Name)
    THEN [dep |-> dep, err |-> "dup-env"]
    ELSE [dep |-> [dep EXCEPT !.env = Append(@, env)], err |-> ""]

\* MutEnvFromOverwrites adds the variable whether or not the name is taken;
\* MutEnvFromSecretRefOnly references every resource as a Secret
MutEnvFromOverwrites(st, resource, idx) ==
    IF ~isSecret(resource) /\ ~isConfigMap(resource)
    THEN [st |-> st, err |-> "illegal"]
    ELSE IF ~st.dep.hasNuxeo
         THEN [st |-> st, err |-> "no-container"]
         ELSE [st |-> [st EXCEPT !.dep.env =
                          Append(@, EnvVar(resource.Projections[idx].Env,
                                           IF isSecret(resource) THEN "secretKeyRef"
                                                                 ELSE "configMapKeyRef",
                                           resource.Name,
                                           resource.Projections[idx].Key))],
               err |-> ""]

MutEnvFromSecretRefOnly(st, resource, idx) ==
    IF ~isSecret(resource) /\ ~isConfigMap(resource)
    THEN [st |-> st, err |-> "illegal"]
    ELSE IF ~st.dep.hasNuxeo
         THEN [st |-> st, err |-> "no-container"]
         ELSE IF HasEnv(st.dep, resource.Projections[idx].Env)
              THEN [st |-> st, err |-> "dup-env"]
              ELSE [st |-> [st EXCEPT !.dep.env =
                               Append(@, EnvVar(resource.Projections[idx].Env,
                                                "secretKeyRef", resource.Name,
                                                resource.Projections[idx].Key))],
                    err |-> ""]

\* returns [st, err]
projectEnvFrom(st, resource, idx) ==
    LET projection == resource.Projections[idx]
        env == EnvVar(projection.Env,
                      IF isSecret(resource) THEN "secretKeyRef" ELSE "configMapKeyRef",
                      resource.Name, projection.Key)
    IN
    IF ~isSecret(resource) /\ ~isConfigMap(resource)
    THEN [st |-> st, err |-> "illegal"]
    ELSE IF ~st.dep.hasNuxeo
         THEN [st |-> st, err |-> "no-container"]
         ELSE IF HasEnv(st.dep, env.Name)
              THEN [st |-> st, err |-> "dup-env"]
              ELSE [st |-> [st EXCEPT !.dep.env = Append(@, env)], err |-> ""]

\* the characters of the path expressions the model uses
CharsOf(jsonPath) ==
    CASE jsonPath = "{.spec.clusterIP}" ->
             <<"{", ".", "s", "p", "e", "c", ".",
               "c", "l", "u", "s", "t", "e", "r", "I", "P", "}">>
      [] jsonPath = "{.spec.ports[0].port}" ->
             <<"{", ".", "s", "p", "e", "c", ".", "p", "o", "r", "t", "s",
               "[", "0", "]", ".", "p", "o", "r", "t", "}">>
      [] jsonPath = "{.spec.type}" ->
             <<"{", ".", "s", "p", "e", "c", ".", "t", "y", "p", "e", "}">>
      [] jsonPath = "" -> <<>>

\* the characters the expression [^-._a-zA-Z0-9]+ does not match
KeyChars ==
    {"-", ".", "_"}
    \cup {"a", "b", "c", "d", "e", "f", "g", "h", "i", "j", "k", "l", "m",
          "n", "o", "p", "q", "r", "s", "t", "u", "v", "w", "x", "y", "z"}
    \cup {"A", "B", "C", "D", "E", "F", "G", "H", "I", "J", "K", "L", "M",
          "N", "O", "P", "Q", "R", "S", "T", "U", "V", "W", "X", "Y", "Z"}
    \cup {"0", "1", "2", "3", "4", "5", "6", "7", "8", "9"}

IsKeyChar(c) == c \in KeyChars

RECURSIVE JoinChars(_)
JoinChars(cs) == IF cs = <<>> THEN "" ELSE Head(cs) \o JoinChars(Tail(cs))

\* MutPathToKeyKeepsAll removes nothing
MutPathToKeyKeepsAll(jsonPath) == JoinChars(CharsOf(jsonPath))

\* reg.ReplaceAllString(jsonPath, ""): every run of other characters removed
pathToKey(jsonPath) == JoinChars(SelectSeq(CharsOf(jsonPath), IsKeyChar))

\* the tail shared by both branches of projectMount: merge the volume, add
\* the mount
WithDep(st, r) == [st |-> [st EXCEPT !.dep = r.dep], err |-> r.err]

MountedOf(st, av, mnt) ==
    IF av.err # "" THEN WithDep(st, av) ELSE WithDep(st, addVolMnt(av.dep, mnt))

MountTail(st, backingServiceName, src) ==
    MountedOf(st,
              addVolumeProjectionAndItems(st.dep,
                  Volume("backing-" \o ToLower(backingServiceName), <<src>>)),
              VolumeMount("backing-" \o ToLower(backingServiceName),
                          backingMountBase \o backingServiceName))

\* returns [st, err]
\* the branch for a resource that is neither Secret nor ConfigMap, once the
\* locator has answered: the value goes into the secondary secret draft
MountValue(gv, backingServiceName, newKey, mount) ==
    IF gv.err # "" \/ gv.val = Nil
    THEN [st |-> gv.st, err |-> gv.err]
    ELSE IF newKey \in DOMAIN gv.st.sec.data
         THEN [st |-> gv.st, err |-> "dup-key"]
         ELSE MountTail([gv.st EXCEPT !.sec.data = MapPut(@, newKey, gv.val)],
                        backingServiceName,
                        VolumeProjection("secret", gv.st.sec.Name,
                                         <<KeyToPath(newKey, mount)>>))

projectMount(st, backingServiceName, resource, idx) ==
    IF ~st.dep.hasNuxeo
    THEN [st |-> st, err |-> "no-container"]
    ELSE IF isSecret(resource) \/ isConfigMap(resource)
         THEN MountTail(st, backingServiceName,
                  VolumeProjection(IF isSecret(resource) THEN "secret" ELSE "configmap",
                                   resource.Name,
                                   <<KeyToPath(resource.Projections[idx].Key,
                                               resource.Projections[idx].Mount)>>))
         ELSE MountValue(getValueFromResource(st, resource, idx), backingServiceName,
                         pathToKey(resource.Projections[idx].Path),
                         resource.Projections[idx].Mount)

\* returns [st, err]
\* the steps of projectTransform, each on the result of the one before it
TransformMounted(mt, transform) ==
    IF mt.err # "" THEN mt
    ELSE IF ~mt.st.dep.hasNuxeo THEN [st |-> mt.st, err |-> "no-container"]
    ELSE WithDep(mt.st, OnlyAdd(mt.st.dep, EnvVar(transform.PassEnv, "secretKeyRef",
                                                  mt.st.sec.Name, transform.Password)))

TransformFilled(filled, ev, backingServiceName, transform) ==
    IF filled.err # "" THEN filled
    ELSE TransformMounted(
             MountTail([filled.st EXCEPT !.log =
                           Append(@, LogEv(ev, backingServiceName, transform.Password,
                                           filled.st.sec.data))],
                       backingServiceName,
                       VolumeProjection("secret", filled.st.sec.Name,
                           <<KeyToPath(transform.Store, transform.Store),
                             KeyToPath(transform.Password, transform.Password)>>)),
             transform)

TransformCached(cur, gv, backingServiceName, resource, transform) ==
    IF cur.current
    THEN TransformFilled(loadSecondary(cur.st, resource, gv.ver,
                                       <<transform.Store, transform.Password>>),
                         "hit", backingServiceName, transform)
    ELSE TransformFilled(populateSecondaryNew(cur.st, resource, transform.Store,
                                              transform.Password, gv.ver, gv.val),
                         "miss", backingServiceName, transform)

TransformValue(gv, backingServiceName, resource, transform) ==
    IF gv.err # "" THEN [st |-> gv.st, err |-> gv.err]
    ELSE TransformCached(secondarySecretIsCurrent(gv.st, gv.st.sec.Name, resource, gv.ver),
                         gv, backingServiceName, resource, transform)

projectTransform(st, backingServiceName, resource, idx) ==
    IF resource.Projections[idx].Transform.Store \in DOMAIN st.sec.data
    THEN [st |-> st, err |-> "dup-key"]
    ELSE IF resource.Projections[idx].Transform.Password \in DOMAIN st.sec.data
         THEN [st |-> st, err |-> "dup-key"]
         ELSE TransformValue(getValueFromResource(st, resource, idx), backingServiceName,
                             resource, resource.Projections[idx].Transform)

\* ------------------------------------------------------ generic reconciliation
\* util.SecretCompare: expected and found are equal when their content is;
\* otherwise found takes its content from expected (it keeps its own
\* identity: owner references and resource version)
SecretCompare(expected, found) ==
    LET same == expected.data = found.data /\ expected.ann = found.ann IN
    [same |-> same,
     found |-> IF same THEN found
               ELSE [found EXCEPT !.data = expected.data, !.ann = expected.ann]]

\* returns [st, err]
\* what addOrUpdate does once the Get has answered
AddOrUpdateOfGot(got, name, expected) ==
    IF got.res = "notfound"
    THEN ClientWrite(got.st, "create", SecretKey(name),
                     Obj(0, expected.data, expected.ann, expected.owners))
    ELSE IF got.res = "error"
         THEN [st |-> got.st, err |-> "cluster"]
         ELSE IF ~SecretCompare(expected, got.obj).same
              THEN ClientWrite(got.st, "update", SecretKey(name),
                               SecretCompare(expected, got.obj).found)
              ELSE [st |-> got.st, err |-> ""]

\* MutAddOrUpdateAlwaysWrites updates the object it finds whether or not
\* the comparer finds it different
AlwaysWritesOfGot(got, name, expected) ==
    IF got.res = "notfound"
    THEN ClientWrite(got.st, "create", SecretKey(name),
                     Obj(0, expected.data, expected.ann, expected.owners))
    ELSE IF got.res = "error"
         THEN [st |-> got.st, err |-> "cluster"]
         ELSE ClientWrite(got.st, "update", SecretKey(name),
                          SecretCompare(expected, got.obj).found)

MutAddOrUpdateAlwaysWrites(st, name, expected) ==
    AlwaysWritesOfGot(ClientGet(st, SecretKey(name)), name, expected)

addOrUpdate(st, name, expected) ==
    AddOrUpdateOfGot(ClientGet(st, SecretKey(name)), name, expected)

\* getOwnerRefs: the UIDs of the object's owner references
getOwnerRefs(obj) == obj.owners

\* instance.IsOwnerUids: one of the UIDs is the instance's
IsOwnerUids(instance, uids) == instance.UID \in uids

\* returns [st, err]; MutRemoveUnowned deletes without looking at the owner
RemoveUnownedOfGot(got, name) ==
    IF got.res = "ok"
    THEN ClientWrite(got.st, "delete", SecretKey(name), NoObj)
    ELSE IF got.res = "error"
         THEN [st |-> got.st, err |-> "cluster"]
         ELSE [st |-> got.st, err |-> ""]

MutRemoveUnowned(st, instance, name) ==
    RemoveUnownedOfGot(ClientGet(st, SecretKey(name)), name)

\* what removeIfPresent does once the Get has answered
RemoveOfGot(got, instance, name) ==
    IF got.res = "ok"
    THEN IF IsOwnerUids(instance, getOwnerRefs(got.obj))
         THEN ClientWrite(got.st, "delete", SecretKey(name), NoObj)
         ELSE [st |-> got.st, err |-> ""]
    ELSE IF got.res = "error"
         THEN [st |-> got.st, err |-> "cluster"]
         ELSE [st |-> got.st, err |-> ""]

removeIfPresent(st, instance, name) ==
    RemoveOfGot(ClientGet(st, SecretKey(name)), instance, name)

\* returns [st, err]; MutReconcileKeepsEmpty never removes a secret,
\* MutReconcileAlwaysAdds writes the draft whether or not it has content
\* the draft handed to reconcileSecondary is recorded
Reconciling(st) ==
    [st EXCEPT !.log = Append(@, LogEv("reconcile", st.sec.Name, "", st.sec.data))]

MutReconcileKeepsEmpty(st, instance) ==
    IF Cardinality(DOMAIN st.sec.data) # 0
    THEN addOrUpdate(Reconciling(st), st.sec.Name, st.sec)
    ELSE [st |-> Reconciling(st), err |-> ""]

MutReconcileAlwaysAdds(st, instance) ==
    addOrUpdate(Reconciling(st), st.sec.Name, st.sec)

reconcileSecondary(st, instance) ==
    IF Cardinality(DOMAIN st.sec.data) # 0
    THEN addOrUpdate(Reconciling(st), st.sec.Name, st.sec)
    ELSE removeIfPresent(Reconciling(st), instance, st.sec.Name)

\* ---------------------------------------------------------- binding orchestrator
\* MutDispatchWithoutTransform has no case for a transform
MutDispatchWithoutTransform(st, backingService, resource, i) ==
    IF (isSecret(resource) \/ isConfigMap(resource)) /\ resource.Projections[i].Env # ""
    THEN projectEnvFrom(st, resource, i)
    ELSE IF resource.Projections[i].Mount # ""
         THEN projectMount(st, backingService.Name, resource, i)
         ELSE [st |-> st, err |-> "no-handler"]

\* the handler a projection is dispatched to; returns [st, err]
Dispatch(st, backingService, resource, i) ==
    IF (isSecret(resource) \/ isConfigMap(resource)) /\ resource.Projections[i].Env # ""
    THEN projectEnvFrom(st, resource, i)
    ELSE IF resource.Projections[i].Mount # ""
         THEN projectMount(st, backingService.Name, resource, i)
         ELSE IF resource.Projections[i].Transform # NoTransform
              THEN projectTransform(st, backingService.Name, resource, i)
              ELSE [st |-> st, err |-> "no-handler"]

\* the projections of one resource from position i on; returns [st, err]
RECURSIVE ApplyProjections(_, _, _, _)
AfterProjection(r, backingService, resource, i) ==
    IF r.err # "" THEN r ELSE ApplyProjections(r.st, backingService, resource, i + 1)

ApplyProjections(st, backingService, resource, i) ==
    IF i > Len(resource.Projections) THEN [st |-> st, err |-> ""]
    ELSE AfterProjection(Dispatch(st, backingService, resource, i),
                         backingService, resource, i)

\* the resources of one binding from position i on; returns [st, err]
RECURSIVE ApplyResources(_, _, _)
AfterResource(r, backingService, i) ==
    IF r.err # "" THEN r ELSE ApplyResources(r.st, backingService, i + 1)

\* MutSkipInvalidResource passes over a resource the validator rejects
MutSkipInvalidResource(st, backingService, i) ==
    IF i > Len(backingService.Resources) THEN [st |-> st, err |-> ""]
    ELSE IF ~projectionsAreValid(GvkOf(backingService.Resources[i]),
                                 backingService.Resources[i].Projections)
         THEN ApplyResources(st, backingService, i + 1)
         ELSE AfterResource(ApplyProjections(st, backingService,
                                             backingService.Resources[i], 1),
                            backingService, i)

ApplyResources(st, backingService, i) ==
    IF i > Len(backingService.Resources) THEN [st |-> st, err |-> ""]
    ELSE IF ~projectionsAreValid(GvkOf(backingService.Resources[i]),
                                 backingService.Resources[i].Projections)
         THEN [st |-> st, err |-> "invalid-projections"]
         ELSE AfterResource(ApplyProjections(st, backingService,
                                             backingService.Resources[i], 1),
                            backingService, i)

\* the secondary secret is reconciled when every projection went through
AfterResources(r, instance) ==
    IF r.err # "" THEN r ELSE reconcileSecondary(r.st, instance)

\* returns [st, err]
configureBackingService(st, instance, backingService) ==
    AfterResources(
        ApplyResources([st EXCEPT !.sec = defaultSecondarySecret(instance, backingService)],
                       backingService, 1),
        instance)

\* the expansion of the ECK shorthand
eckBacking(preCfg) ==
    [Name |-> "elastic",
     Resources |-> <<Resource("", "v1", "secret", "elastic-es-elastic-user",
                              <<Projection("elastic", "", "ELASTIC_PASSWORD", "",
                                           NoTransform)>>)>>,
     NuxeoConf |-> "elasticsearch.client=RestClient",
     Preconfigured |-> NoPreconfigured]

\* MutXlatUnimplementedIsEmpty expands a family that is not implemented to
\* the empty definition without an error
MutXlatUnimplementedIsEmpty(preCfg) ==
    IF preCfg.Type = "ECK"
    THEN [backing |-> eckBacking(preCfg), err |-> ""]
    ELSE IF preCfg.Type \in {"Strimzi", "Crunchy"}
         THEN [backing |-> BackingService("", <<>>, ""), err |-> ""]
         ELSE [backing |-> BackingService("", <<>>, ""), err |-> "preconfig"]

\* returns [backing, err]
xlatBacking(preCfg) ==
    IF preCfg.Type = "ECK"
    THEN [backing |-> eckBacking(preCfg), err |-> ""]
    ELSE [backing |-> BackingService("", <<>>, ""), err |-> "preconfig"]

\* joins the non-empty strings with the separator
joinCompact(sep, a, b) ==
    IF a = "" THEN b ELSE IF b = "" THEN a ELSE a \o sep \o b

\* the binding as declared, or the expansion of its shorthand
Translated(declared) ==
    IF declared.Preconfigured.Type # ""
    THEN xlatBacking(declared.Preconfigured)
    ELSE [backing |-> declared, err |-> ""]

\* the bindings from position idx on; returns [st, conf, err]
RECURSIVE ApplyBindings(_, _, _, _)
\* MutAfterBindingPrepends puts the fragment of a binding before the
\* fragments of the bindings declared ahead of it
MutAfterBindingPrepends(r, instance, idx, nuxeoConf, backing) ==
    IF r.err # ""
    THEN [st |-> r.st, conf |-> "", err |-> r.err]
    ELSE ApplyBindings(r.st, instance, idx + 1,
                       joinCompact("\n", backing.NuxeoConf, nuxeoConf))

AfterBinding(r, instance, idx, nuxeoConf, backing) ==
    IF r.err # ""
    THEN [st |-> r.st, conf |-> "", err |-> r.err]
    ELSE ApplyBindings(r.st, instance, idx + 1,
                       joinCompact("\n", nuxeoConf, backing.NuxeoConf))

ConfigureTranslated(st, instance, idx, nuxeoConf, x) ==
    IF x.err # ""
    THEN [st |-> st, conf |-> "", err |-> x.err]
    ELSE AfterBinding(configureBackingService(st, instance, x.backing),
                      instance, idx, nuxeoConf, x.backing)

ApplyBindings(st, instance, idx, nuxeoConf) ==
    IF idx > Len(instance.BackingServices)
    THEN [st |-> st, conf |-> nuxeoConf, err |-> ""]
    ELSE IF ~backingSvcIsValid(instance.BackingServices[idx])
         THEN [st |-> st, conf |-> "", err |-> "invalid-binding"]
         ELSE ConfigureTranslated(st, instance, idx, nuxeoConf,
                                  Translated(instance.BackingServices[idx]))

\* one pass over a freshly built deployment draft; returns [st, conf, err]
configureBackingServices(cluster, instance, dep, fault) ==
    ApplyBindings(PassState(cluster, dep, fault), instance, 1, "")

\* ------------------------------------------------------------- the inputs
\* the transform of binding n: store key, password key and password variable
T1(n) == [Type |-> "TrustStore", Store |-> "truststore.jks",
          Password |-> "truststore.pass", PassEnv |-> "TS_PASS_" \o n]

T2(n) == [Type |-> "TrustStore", Store |-> "ca2.jks",
          Password |-> "ca2.pass", PassEnv |-> "TS2_PASS_" \o n]

CaRef(projections) == Resource("", "v1", "secret", "ca", projections)

CredsRef(projections) == Resource("", "v1", "Secret", "creds", projections)

CmRef(projections) == Resource("", "v1", "ConfigMap", "settings", projections)

SvcRef(projections) == Resource("", "v1", "Service", "svc", projections)

PEnv(n) == Projection("password", "", "DB_PASSWORD_" \o n, "", NoTransform)

PMnt == Projection("ca.crt", "", "", "ca.crt", NoTransform)

PMntCm == Projection("host", "", "", "host", NoTransform)

PTrans(t) == Projection("ca.crt", "", "", "", t)

PSvc == Projection("", "{.spec.clusterIP}", "", "ip", NoTransform)

PNoTarget == Projection("ca.crt", "", "", "", NoTransform)

\* the resource lists a binding named n is declared with
NoSecondary(n) == <<CredsRef(<<PEnv(n)>>), CaRef(<<PMnt>>), CmRef(<<PMntCm>>)>>

OneTransform(n) == <<CaRef(<<PTrans(T1(n))>>), CredsRef(<<PEnv(n)>>)>>

OtherTransform(n) == <<CaRef(<<PTrans(T2(n))>>)>>

SvcMount(n) == <<SvcRef(<<PSvc>>)>>

\* a well-formed resource, then one whose second projection names no target
BadProjection(n) == <<CredsRef(<<PEnv(n)>>), CaRef(<<PMnt, PNoTarget>>)>>

FirstMenu ==
    {BackingService("b1", r, "b1.conf=1") :
        r \in {NoSecondary("b1"), OneTransform("b1"), OtherTransform("b1"),
               SvcMount("b1"), BadProjection("b1")}}

\* the second binding declares no transform: it is either well-formed or has
\* no name
SecondMenu ==
    {BackingService("b2", NoSecondary("b2"), "b2.conf=1"),
     BackingService("", NoSecondary("b2"), "")}

\* the binding lists of the custom resource: binding names are distinct
BindingLists ==
    {<<>>} \cup {<<x>> : x \in FirstMenu} \cup {<<x, y>> : x \in FirstMenu, y \in SecondMenu}

InstanceOf(bindings) == [Name |-> "nux", UID |-> "uid-nux", BackingServices |-> bindings]

UpstreamKeys == {<<".v1.secret", "ca">>, <<".v1.service", "svc">>}

SecondaryKeys == {SecretKey("nux-secondary-b1"), SecretKey("nux-secondary-b2")}

ObjKeys == UpstreamKeys \cup SecondaryKeys

\* the Secret is rewritten up to MaxVer times, the Service is written once
MaxVerOf(k) == IF k[1] = ".v1.secret" THEN MaxVer ELSE 1

\* the content of upstream object k at resource version rv
UpstreamData(k, rv) ==
    IF k[1] = ".v1.secret"
    THEN ("ca.crt" :> Raw(k[2], rv))
    ELSE IF k[1] = ".v1.configmap"
         THEN ("host" :> Raw(k[2], rv))
         ELSE ("{.spec.clusterIP}" :> Raw(k[2], rv))
                  @@ ("{.spec.ports[0].port}" :> Raw(k[2], rv))

\* a Secret somebody else put where a secondary secret would go
ForeignSecret(owners) == Obj(0, ("note" :> Raw("foreign", 0)), EmptyAnn, owners)

\* the freshly built deployment draft a pass starts from
Dep0 == [hasNuxeo |-> TRUE, env |-> <<>>, volumes |-> <<>>, mounts |-> <<>>]

\* ------------------------------------------ inputs of the projection applier
\* Projections applied one at a time to the drafts of one binding: mounts of
\* two keys of Secret ca (one of them at two paths), a mount of Secret creds
\* and of ConfigMap settings, environment variables from both kinds, a
\* transform of ca, a transform that names one key for store and password,
\* and mounts of two paths of Service svc.
PMntKey == Projection("tls.key", "", "", "tls.key", NoTransform)

PMntElsewhere == Projection("ca.crt", "", "", "other.crt", NoTransform)

PMntCreds == Projection("password", "", "", "password", NoTransform)

PEnvCm == Projection("host", "", "DB_HOST", "", NoTransform)

PSvcPort == Projection("", "{.spec.ports[0].port}", "", "port", NoTransform)

\* a transform whose store key and password key are one name
TSame == [Type |-> "TrustStore", Store |-> "bundle", Password |-> "bundle",
          PassEnv |-> "BUNDLE_PASS"]

ApplyMenu ==
    {CaRef(<<PMnt>>), CaRef(<<PMntKey>>), CaRef(<<PMntElsewhere>>),
     CredsRef(<<PMntCreds>>), CmRef(<<PMntCm>>),
     CredsRef(<<PEnv("b1")>>), CmRef(<<PEnvCm>>),
     CaRef(<<PTrans(T1("b1"))>>), CaRef(<<PTrans(TSame)>>),
     SvcRef(<<PSvc>>), SvcRef(<<PSvcPort>>)}

\* the binding the projections belong to
ApplyBinding == BackingService("b1", <<>>, "")

\* the store they read: both upstream objects at their first version
ApplyCluster ==
    [k \in ObjKeys |-> IF k \in UpstreamKeys
                       THEN Obj(1, UpstreamData(k, 1), EmptyAnn, {})
                       ELSE NoObj]

\* a variable the node set put into the nuxeo container
NodeSetEnv == [Name |-> "DB_HOST", From |-> "value", Ref |-> "", Key |-> ""]

\* the drafts configureBackingService starts the binding with
ApplyStart(env) ==
    [PassState(ApplyCluster, [Dep0 EXCEPT !.env = env], 0)
        EXCEPT !.sec = defaultSecondarySecret(InstanceOf(<<>>), ApplyBinding)]

\* no projection applied yet
ApplyIdle(st) == [n |-> 0, resource |-> CaRef(<<>>), err |-> "", before |-> st]

\* ------------------------------------------------------ node set reconciler
\* labels of a pod template: label -> value
NoLabels == [l \in {} |-> ""]

\* PodTemplate.Spec of a node set that gives none
NoPodSpec == [Containers |-> <<>>, Volumes |-> <<>>]

\* A node set.  NuxeoConf is the source of NuxeoConfig.NuxeoConf: "" (not
\* set), "inline" (a value), "configMap" or "emptyDir" (a volume source).
NodeSet(name, replicas, interactive, labels, podSpec, nuxeoConf) ==
    [Name |-> name, Replicas |-> replicas, Interactive |-> interactive,
     PodLabels |-> labels, PodSpec |-> podSpec, NuxeoConf |-> nuxeoConf]

\* MutDeploymentNameOfNodeSet names the Deployment after the node set alone
MutDeploymentNameOfNodeSet(nux, nodeSet) == nodeSet.Name

deploymentName(nux, nodeSet) == nux.Name \o "-" \o nodeSet.Name

labelsForNuxeo(nux, interactive) ==
    IF interactive
    THEN [l \in {"app", "nuxeoCr", "interactive"} |->
             IF l = "app" THEN "nuxeo" ELSE IF l = "nuxeoCr" THEN nux.Name ELSE "true"]
    ELSE [l \in {"app", "nuxeoCr"} |-> IF l = "app" THEN "nuxeo" ELSE nux.Name]

\* the pod spec of a Deployment: its containers and its volumes, by name
PodSpecOf(containers, volumes) == [Containers |-> containers, Volumes |-> volumes]

\* a Deployment: its name, the UID of its controller and its spec
Deployment(name, owner, replicas, selector, labels, pod) ==
    [Name |-> name, Owner |-> owner,
     Spec |-> [Replicas |-> replicas, Selector |-> selector, Labels |-> labels,
               Pod |-> pod]]

\* the pod spec after configureNuxeoConf; returns [pod, err]
configureNuxeoConf(pod, nodeSet) ==
    IF nodeSet.NuxeoConf = ""
    THEN [pod |-> pod, err |-> ""]
    ELSE IF nodeSet.NuxeoConf \notin {"inline", "configMap", "secret"}
         THEN [pod |-> pod, err |-> "conf-source"]
         ELSE [pod |-> [pod EXCEPT !.Volumes = Append(@, "nuxeoconf")], err |-> ""]

\* the pod spec the Deployment is built with: the one of the pod template
\* when the node set gives one, else the generated one
TemplateOrDefault(pod, nodeSet) ==
    IF nodeSet.PodSpec # NoPodSpec THEN nodeSet.PodSpec ELSE pod

\* returns [dep, err]
DeploymentWith(nux, depName, nodeSet, cfg) ==
    IF cfg.err # ""
    THEN [dep |-> Deployment("", "", 0, NoLabels, NoLabels, NoPodSpec), err |-> cfg.err]
    ELSE [dep |-> Deployment(depName, nux.UID, nodeSet.Replicas,
                             labelsForNuxeo(nux, nodeSet.Interactive),
                             labelsForNuxeo(nux, nodeSet.Interactive),
                             TemplateOrDefault(cfg.pod, nodeSet)),
          err |-> ""]

\* returns [dep, err]; no reverse proxy and no TLS secret are configured
defaultDeployment(nux, depName, nodeSet) ==
    DeploymentWith(nux, depName, nodeSet,
                   configureNuxeoConf(PodSpecOf(<<"nuxeo">>, <<>>), nodeSet))

\* what reconcileNodeSet returns and leaves: [deps, requeue, err, ops]
Reconciled(deps, requeue, err, ops) ==
    [deps |-> deps, requeue |-> requeue, err |-> err, ops |-> ops]

\* the labels of the pod template that the generated labels do not carry
\* are added to them
WithPodLabels(dep, nodeSet) ==
    [dep EXCEPT !.Spec.Labels =
        [l \in DOMAIN dep.Spec.Labels \cup DOMAIN nodeSet.PodLabels |->
            IF l \in DOMAIN dep.Spec.Labels THEN dep.Spec.Labels[l]
                                            ELSE nodeSet.PodLabels[l]]]

\* the Deployment store with object dep under its name
Stored(deps, dep) ==
    [n \in DOMAIN deps \cup {dep.Name} |-> IF n = dep.Name THEN dep ELSE deps[n]]

\* MutObjectsDifferNever finds every two specs alike
MutObjectsDifferNever(expected, actual) == FALSE

\* the YAML renderings of two specs have different digests
ObjectsDiffer(expected, actual) == expected # actual

\* the Deployment was not found
CreateExpected(deps, nodeSet, expected, fault) ==
    IF fault = 2
    THEN Reconciled(deps, FALSE, "create", <<>>)
    ELSE Reconciled(Stored(deps, WithPodLabels(expected, nodeSet)), TRUE, "",
                    <<[op |-> "create", name |-> expected.Name]>>)

\* the Deployment was found
ConformActual(deps, expected, fault) ==
    IF ObjectsDiffer(expected.Spec, deps[expected.Name].Spec)
    THEN IF fault = 2
         THEN Reconciled(deps, FALSE, "update", <<>>)
         ELSE Reconciled([deps EXCEPT ![expected.Name].Spec = expected.Spec], FALSE, "",
                         <<[op |-> "update", name |-> expected.Name]>>)
    ELSE Reconciled(deps, FALSE, "", <<>>)

AfterDefault(deps, nodeSet, e, fault) ==
    IF e.err # ""
    THEN Reconciled(deps, FALSE, e.err, <<>>)
    ELSE IF fault = 1
         THEN Reconciled(deps, FALSE, "get", <<>>)
         ELSE IF e.dep.Name \notin DOMAIN deps
              THEN CreateExpected(deps, nodeSet, e.dep, fault)
              ELSE ConformActual(deps, e.dep, fault)

\* the n-th cluster call fails when fault = n
reconcileNodeSet(deps, nodeSet, instance, fault) ==
    AfterDefault(deps, nodeSet,
                 defaultDeployment(instance, deploymentName(instance, nodeSet), nodeSet),
                 fault)

\* the node sets the custom resource takes
NodeSets ==
    {NodeSet("cluster", replicas, interactive, labels, podSpec, nuxeoConf) :
        replicas \in 1..MaxReplicas, interactive \in BOOLEAN,
        labels \in {NoLabels, [l \in {"tier"} |-> "web"], [l \in {"app"} |-> "mine"]},
        podSpec \in {NoPodSpec, PodSpecOf(<<"web">>, <<>>)},
        nuxeoConf \in {"", "inline", "emptyDir"}}

\* the node set of the unit tests
NodeSet0 == NodeSet("cluster", MaxReplicas, FALSE, NoLabels, NoPodSpec, "")

\* no Deployment in the store
NoDeps == [n \in {} |-> Deployment("", "", 0, NoLabels, NoLabels, NoPodSpec)]

\* no reconciliation of the node set since the last change made by others;
\* after is what the reconciliation before the last one did
NodeSetIdle ==
    [kind |-> "env", requeue |-> FALSE, err |-> "", fault |-> 0, ops |-> <<>>,
     pre |-> NoDeps, after |-> "none"]

\* ------------------------------------------------------------ node set storage
\* A storage entry of a node set.  Pvc is the claim name of an explicit
\* VolumeClaimTemplate ("" when none is given), VolumeSource an explicit
\* volume source ("" when none is given).
NuxeoStorageSpec(type, mountPath, pvc, volumeSource) ==
    [StorageType |-> type, MountPath |-> mountPath, Pvc |-> pvc,
     VolumeSource |-> volumeSource]

\* MutEnvVarForEveryStorage defines a variable for every storage type
MutEnvVarForEveryStorage(storageType, mountPath) ==
    CASE storageType = "Binaries" -> [Name |-> "NUXEO_BINARY_STORE", Value |-> mountPath]
      [] storageType = "TransientStore" ->
             [Name |-> "NUXEO_TRANSIENT_STORE", Value |-> mountPath]
      [] OTHER -> [Name |-> "NUXEO_STORE", Value |-> mountPath]

\* the empty EnvVar: Name and Value empty
createEnvVarForStorage(storageType, mountPath) ==
    CASE storageType = "Binaries" -> [Name |-> "NUXEO_BINARY_STORE", Value |-> mountPath]
      [] storageType = "TransientStore" ->
             [Name |-> "NUXEO_TRANSIENT_STORE", Value |-> mountPath]
      [] OTHER -> [Name |-> "", Value |-> ""]

getPathForStorageType(storageType) ==
    CASE storageType = "Binaries" -> "/var/lib/nuxeo/binaries"
      [] storageType = "TransientStore" -> "/var/lib/nuxeo/transientstore"
      [] storageType = "Connect" -> "/opt/nuxeo/connect"
      [] storageType = "Data" -> "/var/lib/nuxeo/data"
      [] OTHER -> "/opt/nuxeo/server/tmp"

createVolumeMountForStorage(storageType, volumeName) ==
    [Name |-> volumeName, ReadOnly |-> FALSE,
     MountPath |-> getPathForStorageType(storageType)]

volumeNameForStorage(storageType) ==
    CASE storageType = "Binaries" -> "binaries"
      [] storageType = "TransientStore" -> "transientstore"
      [] storageType = "Connect" -> "connect"
      [] storageType = "Data" -> "data"
      [] OTHER -> "nuxeotmp"

createVolumeForStorage(storage) ==
    [Name |-> volumeNameForStorage(storage.StorageType),
     Source |-> IF storage.Pvc # ""
                THEN "pvc:" \o storage.Pvc
                ELSE IF storage.VolumeSource # ""
                     THEN storage.VolumeSource
                     ELSE "pvc:" \o volumeNameForStorage(storage.StorageType) \o "-pvc"]

\* the variables of the container with envVar appended unless it is empty
WithStorageEnv(env, envVar) ==
    IF envVar # [Name |-> "", Value |-> ""] THEN Append(env, envVar) ELSE env

\* one storage entry: the volume is added first, the mount and the variable
\* once the nuxeo container is found; returns [dep, err]
StoreOne(dep, storage, volume, volMnt) ==
    IF ~dep.hasNuxeo
    THEN [dep |-> [dep EXCEPT !.volumes = Append(@, volume)], err |-> "no-container"]
    ELSE [dep |-> [dep EXCEPT !.volumes = Append(@, volume),
                              !.mounts = Append(@, volMnt),
                              !.env = WithStorageEnv(@,
                                          createEnvVarForStorage(storage.StorageType,
                                                                 volMnt.MountPath))],
          err |-> ""]

\* the entries from position i on; returns [dep, err]
RECURSIVE StoreFrom(_, _, _)
AfterStoreOne(r, storages, i) ==
    IF r.err # "" THEN r ELSE StoreFrom(r.dep, storages, i + 1)

StoreFrom(dep, storages, i) ==
    IF i > Len(storages)
    THEN [dep |-> dep, err |-> ""]
    ELSE AfterStoreOne(
             StoreOne(dep, storages[i], createVolumeForStorage(storages[i]),
                      createVolumeMountForStorage(
                          storages[i].StorageType,
                          createVolumeForStorage(storages[i]).Name)),
             storages, i)

\* returns [dep, err]
handleStorage(dep, nodeSet) == StoreFrom(dep, nodeSet.Storage, 1)

\* --------------------------------------------------------------- the state
VARIABLES
    cr,       \* the binding list of the custom resource
    cluster,  \* the cluster store: object key -> object
    last,     \* what the last step was; for a pass, what it did
    vin,      \* the resource handed to the validator (SpecValid)
    vout,     \* the validator's verdict on it: "none", "valid" or "invalid"
    pst,      \* the drafts of one binding, projections applied one by one (SpecApply)
    plast,    \* the last projection applied to them, its error, the drafts before it
    call,     \* a function called on its own and its arguments (SpecCalls)
    ret,      \* what the call returned
    ns,       \* the node set of the custom resource (SpecNodeSet)
    deps,     \* the Deployments of the cluster store: name -> Deployment
    nlast,    \* what the last step on the node set was; for a reconciliation, what it did
    duo       \* two instances of one namespace and their passes in flight (SpecDuo)

vars == <<cr, cluster, last, vin, vout, pst, plast, call, ret, ns, deps, nlast, duo>>

NoCall == [fn |-> "none"]

\* no second instance
NoDuo == [clock |-> 0]

NoRet == [fn |-> "none"]

Idle(c) ==
    [kind |-> "env", err |-> "", conf |-> "", fault |-> 0, ops |-> <<>>, log |-> <<>>,
     dep |-> Dep0, pre |-> c]

Init ==
    /\ cr = <<>>
    /\ cluster = [k \in ObjKeys |-> NoObj]
    /\ last = Idle(cluster)
    /\ vin = CaRef(<<>>)
    /\ vout = "none"
    /\ pst = ApplyStart(<<>>)
    /\ plast = ApplyIdle(pst)
    /\ call = NoCall
    /\ ret = NoRet
    /\ ns = NodeSet0
    /\ deps = NoDeps
    /\ nlast = NodeSetIdle
    /\ duo = NoDuo

\* the configurer edits the custom resource
EditCR ==
    /\ \E b \in BindingLists \ {cr} : cr' = b
    /\ last' = Idle(cluster)
    /\ UNCHANGED <<cluster, vin, vout, pst, plast, call, ret, ns, deps, nlast, duo>>

\* a backing service creates or rewrites an upstream object
UpstreamWrite ==
    /\ \E k \in UpstreamKeys :
          /\ cluster[k].rv < MaxVerOf(k)
          /\ cluster' = [cluster EXCEPT ![k] = Obj(cluster[k].rv + 1,
                                                   UpstreamData(k, cluster[k].rv + 1),
                                                   EmptyAnn, {})]
    /\ last' = Idle(cluster')
    /\ UNCHANGED <<cr, vin, vout, pst, plast, call, ret, ns, deps, nlast, duo>>

\* an upstream object is deleted; its resource version is never reused
UpstreamDelete ==
    /\ \E k \in UpstreamKeys :
          /\ cluster[k].exists
          /\ cluster' = [cluster EXCEPT ![k] = [NoObj EXCEPT !.rv = cluster[k].rv]]
    /\ last' = Idle(cluster')
    /\ UNCHANGED <<cr, vin, vout, pst, plast, call, ret, ns, deps, nlast, duo>>

\* somebody creates a Secret under the name of a secondary secret
ForeignCreate ==
    /\ \E k \in {SecretKey("nux-secondary-b1")}, owners \in {{}, {"uid-other"}} :
          /\ ~cluster[k].exists
          /\ cluster' = [cluster EXCEPT ![k] = ForeignSecret(owners)]
    /\ last' = Idle(cluster')
    /\ UNCHANGED <<cr, vin, vout, pst, plast, call, ret, ns, deps, nlast, duo>>

\* what a pass leaves behind: the store it wrote and the record of what it did
PassResult(r, fault) ==
    /\ cluster' = r.st.cluster
    /\ last' = [kind |-> "pass", err |-> r.err, conf |-> r.conf, fault |-> fault,
                ops |-> r.st.ops, log |-> r.st.log, dep |-> r.st.dep, pre |-> cluster]

\* one reconciliation pass
Pass ==
    /\ \E fault \in 0..MaxFault :
          PassResult(configureBackingServices(cluster, InstanceOf(cr), Dep0, fault), fault)
    /\ UNCHANGED <<cr, vin, vout, pst, plast, call, ret, ns, deps, nlast, duo>>

Next == EditCR \/ UpstreamWrite \/ UpstreamDelete \/ ForeignCreate \/ Pass

Spec == Init /\ [][Next]_vars

\* ------------------------------------------------- the validator on its own
\* the target and addressing fields a projection is declared with
ProjectionShapes ==
    {Projection(key, path, env, mount, transform) :
        key \in {"", "k"}, path \in {"", "{.spec.type}"}, env \in {"", "E"},
        mount \in {"", "m"}, transform \in {NoTransform, T1("b1")}}

RECURSIVE SeqsUpTo(_, _)
SeqsUpTo(S, n) ==
    IF n = 0 THEN {<<>>}
    ELSE LET shorter == SeqsUpTo(S, n - 1) IN
         shorter \cup {Append(q, x) : q \in {r \in shorter : Len(r) = n - 1}, x \in S}

\* the resources handed to the validator: the kind is spelled as the custom
\* resource spells it, the validator sees it lowercased
ValidatorInputs ==
    {Resource("", "v1", kind, "r", projections) :
        kind \in {"secret", "Secret", "ConfigMap", "Service"},
        projections \in SeqsUpTo(ProjectionShapes, MaxProjs)}

InitValid ==
    /\ cr = <<>>
    /\ cluster = [k \in ObjKeys |-> NoObj]
    /\ last = Idle(cluster)
    /\ vin \in ValidatorInputs
    /\ vout = "none"
    /\ pst = ApplyStart(<<>>)
    /\ plast = ApplyIdle(pst)
    /\ call = NoCall
    /\ ret = NoRet
    /\ ns = NodeSet0
    /\ deps = NoDeps
    /\ nlast = NodeSetIdle
    /\ duo = NoDuo

\* configureBackingService validates the projections of a resource
Validate ==
    /\ vout = "none"
    /\ vout' = IF projectionsAreValid(GvkOf(vin), vin.Projections)
               THEN "valid" ELSE "invalid"
    /\ UNCHANGED <<cr, cluster, last, vin, pst, plast, call, ret, ns, deps, nlast, duo>>

NextValid == Validate

SpecValid == InitValid /\ [][NextValid]_vars

\* ------------------------------------------- the projection applier on its own
InitApply ==
    /\ cr = <<>>
    /\ cluster = [k \in ObjKeys |-> NoObj]
    /\ last = Idle(cluster)
    /\ vin = CaRef(<<>>)
    /\ vout = "none"
    /\ pst \in {ApplyStart(<<>>), ApplyStart(<<NodeSetEnv>>)}
    /\ plast = ApplyIdle(pst)
    /\ call = NoCall
    /\ ret = NoRet
    /\ ns = NodeSet0
    /\ deps = NoDeps
    /\ nlast = NodeSetIdle
    /\ duo = NoDuo

\* what one projection leaves behind: the drafts and the handler's error
ApplyResult(r, resource) ==
    /\ pst' = r.st
    /\ plast' = [n |-> plast.n + 1, resource |-> resource, err |-> r.err, before |-> pst]

\* configureBackingService validates a resource and dispatches its projection;
\* the first error ends the binding
ApplyStep ==
    /\ plast.err = ""
    /\ plast.n < MaxSteps
    /\ \E resource \in ApplyMenu :
          /\ projectionsAreValid(GvkOf(resource), resource.Projections)
          /\ ApplyResult(Dispatch(pst, ApplyBinding, resource, 1), resource)
    /\ UNCHANGED <<cr, cluster, last, vin, vout, call, ret, ns, deps, nlast, duo>>

NextApply == ApplyStep

SpecApply == InitApply /\ [][NextApply]_vars

\* ------------------------------------------------- passes over richer lists
\* Binding lists that Spec leaves out: a binding that declares a transform, a
\* value mount and a variable at once, bindings without a configuration
\* fragment, and preconfigured bindings of the implemented family, of the
\* two families not implemented and of a family nobody knows.  The upstream
\* objects are there or not; nothing changes between the passes.
PreBinding(type) ==
    [Name |-> "pre", Resources |-> <<>>, NuxeoConf |-> "pre.conf=1",
     Preconfigured |-> [Type |-> type]]

Mixed(n) == <<CaRef(<<PTrans(T1(n))>>), SvcRef(<<PSvc>>), CredsRef(<<PEnv(n)>>)>>

OnceMenu ==
    {BackingService("b1", NoSecondary("b1"), "b1.conf=1"),
     BackingService("b1", Mixed("b1"), ""),
     BackingService("b2", NoSecondary("b2"), "b2.conf=1"),
     BackingService("b2", SvcMount("b2"), ""),
     PreBinding("ECK"), PreBinding("Strimzi"), PreBinding("Crunchy"),
     PreBinding("Bogus")}

\* what tells two bindings of a list apart
DeclaredAs(b) == IF b.Preconfigured.Type # "" THEN b.Preconfigured.Type ELSE b.Name

OnceLists ==
    {l \in SeqsUpTo(OnceMenu, MaxBindings) :
        \A i, j \in 1..Len(l) : DeclaredAs(l[i]) = DeclaredAs(l[j]) => i = j}

OnceClusters ==
    {[k \in ObjKeys |-> IF k \in present
                        THEN Obj(1, UpstreamData(k, 1), EmptyAnn, {})
                        ELSE NoObj] : present \in SUBSET UpstreamKeys}

InitOnce ==
    /\ cr \in OnceLists
    /\ cluster \in OnceClusters
    /\ last = Idle(cluster)
    /\ vin = CaRef(<<>>)
    /\ vout = "none"
    /\ pst = ApplyStart(<<>>)
    /\ plast = ApplyIdle(pst)
    /\ call = NoCall
    /\ ret = NoRet
    /\ ns = NodeSet0
    /\ deps = NoDeps
    /\ nlast = NodeSetIdle
    /\ duo = NoDuo

NextOnce == Pass

SpecOnce == InitOnce /\ [][NextOnce]_vars

\* ------------------------------------------- passes over lists of namesakes
\* Binding lists in which names repeat or differ only in letter case: the
\* orchestrator checks of a binding only that it has a name and resources
\* (backingSvcIsValid), not that its name is its own.
CmMount(n) == <<CmRef(<<PMntCm>>)>>

NamesMenu ==
    {BackingService("b1", OneTransform("b1"), "b1.conf=1"),
     BackingService("b1", CmMount("b1"), ""),
     BackingService("b1", SvcMount("b1"), ""),
     BackingService("B1", CmMount("B1"), ""),
     BackingService("B1", SvcMount("B1"), ""),
     BackingService("b2", CmMount("b2"), "b2.conf=1")}

NamesLists == SeqsUpTo(NamesMenu, MaxBindings)

NamesKeys == ObjKeys \cup {SecretKey("nux-secondary-B1")}

NamesClusters ==
    {[k \in NamesKeys |-> IF k \in present
                          THEN Obj(1, UpstreamData(k, 1), EmptyAnn, {})
                          ELSE NoObj] : present \in SUBSET UpstreamKeys}

InitNames ==
    /\ cr \in NamesLists
    /\ cluster \in NamesClusters
    /\ last = Idle(cluster)
    /\ vin = CaRef(<<>>)
    /\ vout = "none"
    /\ pst = ApplyStart(<<>>)
    /\ plast = ApplyIdle(pst)
    /\ call = NoCall
    /\ ret = NoRet
    /\ ns = NodeSet0
    /\ deps = NoDeps
    /\ nlast = NodeSetIdle
    /\ duo = NoDuo

NextNames == Pass

SpecNames == InitNames /\ [][NextNames]_vars

\* ------------------------------------------------- functions on their own
\* The resource locator is called on one projection of a Secret, a
\* ConfigMap, a Service or a kind the scheme does not know, with and without
\* key and path, on stores that hold the object or not, with the Get failing
\* or not.  The binding validator is called on bindings with and without
\* preconfigured entry, name and resources.
LocateNames == [secret |-> "ca", Secret |-> "ca", ConfigMap |-> "settings",
                Service |-> "svc", Route |-> "rt"]

LocateResources ==
    {Resource("", "v1", kind, LocateNames[kind],
              <<Projection(key, path, "", "m", NoTransform)>>) :
        kind \in DOMAIN LocateNames, key \in {"", "ca.crt", "host"},
        path \in {"", "{.spec.clusterIP}"}}

LocateKeys == {<<".v1.secret", "ca">>, <<".v1.configmap", "settings">>,
               <<".v1.service", "svc">>}

LocateClusters ==
    {[k \in LocateKeys |-> IF k \in present
                           THEN Obj(1, UpstreamData(k, 1), EmptyAnn, {})
                           ELSE NoObj] : present \in SUBSET LocateKeys}

LocateCalls ==
    {[fn |-> "getValueFromResource", resource |-> resource, fault |-> fault] :
        resource \in LocateResources, fault \in 0..1}

BackingShapes ==
    {[Name |-> name, Resources |-> resources, NuxeoConf |-> "",
      Preconfigured |-> [Type |-> type]] :
        name \in {"", "b1"}, resources \in {<<>>, NoSecondary("b1")},
        type \in {"", "ECK"}}

BackingCalls == {[fn |-> "backingSvcIsValid", backing |-> b] : b \in BackingShapes}

\* the storage entries a node set is declared with: the five storage types
\* and one the switch does not know, with the default volume, with a mount
\* path of the configurer's, with an explicit claim, with an explicit source
StorageEntries ==
    {NuxeoStorageSpec(type, x[1], x[2], x[3]) :
        type \in {"Binaries", "TransientStore", "Connect", "Data", "NuxeoTmp", "Other"},
        x \in {<<"", "", "">>, <<"/custom", "", "">>, <<"", "my-pvc", "">>,
               <<"", "", "emptyDir">>}}

\* handleStorage on a deployment with or without a nuxeo container
StorageCalls ==
    {[fn |-> "handleStorage", dep |-> [Dep0 EXCEPT !.hasNuxeo = c],
      nodeSet |-> [Name |-> "cluster", Storage |-> l]] :
        c \in BOOLEAN, l \in SeqsUpTo(StorageEntries, MaxStorage)}

\* the drafts handed to addOrUpdate: the secondary secret of binding b1 with
\* the store and password of one transform of Secret ca at version 1 or 2
ExpectedDrafts ==
    {[defaultSecondarySecret(InstanceOf(<<>>), BackingService("b1", <<>>, ""))
         EXCEPT !.data = ("truststore.jks" :> StoreOf(Raw("ca", v), 1))
                             @@ ("truststore.pass" :> PassOf(1)),
                !.ann = ("nuxeo.operator.v1.secret.ca" :> v)] : v \in 1..MaxVer}

\* what the store holds under the name of the draft: nothing, the draft of
\* one of the versions as the instance wrote it, or a Secret of somebody else
FoundDrafts ==
    {NoObj, ForeignSecret({}), ForeignSecret({"uid-other"})}
        \cup {Obj(1, e.data, e.ann, e.owners) : e \in ExpectedDrafts}

AddOrUpdateCalls ==
    {[fn |-> "addOrUpdate", expected |-> e, found |-> f, fault |-> fault] :
        e \in ExpectedDrafts, f \in FoundDrafts, fault \in 0..MaxFault}

InitCalls ==
    /\ cr = <<>>
    /\ cluster \in LocateClusters
    /\ last = Idle(cluster)
    /\ vin = CaRef(<<>>)
    /\ vout = "none"
    /\ pst = ApplyStart(<<>>)
    /\ plast = ApplyIdle(pst)
    /\ call \in LocateCalls \cup BackingCalls \cup StorageCalls \cup AddOrUpdateCalls
    /\ call \in StorageCalls => cluster = [k \in LocateKeys |-> NoObj]
    /\ call \in AddOrUpdateCalls => cluster = [k \in LocateKeys |-> NoObj]
    /\ ret = NoRet
    /\ ns = NodeSet0
    /\ deps = NoDeps
    /\ nlast = NodeSetIdle
    /\ duo = NoDuo

\* what the locator returned and how many cluster calls it made
Located(gv) ==
    [fn |-> "getValueFromResource", val |-> gv.val, ver |-> gv.ver, err |-> gv.err,
     calls |-> gv.st.calls]

Locate ==
    /\ call.fn = "getValueFromResource"
    /\ ret = NoRet
    /\ ret' = Located(getValueFromResource(PassState(cluster, Dep0, call.fault),
                                           call.resource, 1))
    /\ UNCHANGED <<cr, cluster, last, vin, vout, pst, plast, call, ns, deps, nlast, duo>>

CheckBacking ==
    /\ call.fn = "backingSvcIsValid"
    /\ ret = NoRet
    /\ ret' = [fn |-> "backingSvcIsValid", ok |-> backingSvcIsValid(call.backing)]
    /\ UNCHANGED <<cr, cluster, last, vin, vout, pst, plast, call, ns, deps, nlast, duo>>

\* what handleStorage returned and the deployment it leaves
StorageHandled(r) == [fn |-> "handleStorage", dep |-> r.dep, err |-> r.err]

HandleStorage ==
    /\ call.fn = "handleStorage"
    /\ ret = NoRet
    /\ ret' = StorageHandled(handleStorage(call.dep, call.nodeSet))
    /\ UNCHANGED <<cr, cluster, last, vin, vout, pst, plast, call, ns, deps, nlast, duo>>

\* the store addOrUpdate is called on: the object found under the name
StoreOfCall == [k \in {SecretKey(call.expected.Name)} |-> call.found]

\* what addOrUpdate returned, the writes it issued and the store it leaves
AddedOrUpdated(r) ==
    [fn |-> "addOrUpdate", err |-> r.err, ops |-> r.st.ops, calls |-> r.st.calls,
     held |-> r.st.cluster[SecretKey(call.expected.Name)]]

AddOrUpdate ==
    /\ call.fn = "addOrUpdate"
    /\ ret = NoRet
    /\ ret' = AddedOrUpdated(addOrUpdate(PassState(StoreOfCall, Dep0, call.fault),
                                         call.expected.Name, call.expected))
    /\ UNCHANGED <<cr, cluster, last, vin, vout, pst, plast, call, ns, deps, nlast, duo>>

NextCalls == Locate \/ CheckBacking \/ HandleStorage \/ AddOrUpdate

SpecCalls == InitCalls /\ [][NextCalls]_vars

\* --------------------------------------------------- the node set on its own
\* The custom resource has one node set.  The configurer edits it, somebody
\* deletes its Deployment or scales it behind the operator's back, and
\* reconcileNodeSet runs, its n-th cluster call failing or none.
InitNodeSet ==
    /\ cr = <<>>
    /\ cluster = [k \in ObjKeys |-> NoObj]
    /\ last = Idle(cluster)
    /\ vin = CaRef(<<>>)
    /\ vout = "none"
    /\ pst = ApplyStart(<<>>)
    /\ plast = ApplyIdle(pst)
    /\ call = NoCall
    /\ ret = NoRet
    /\ ns \in NodeSets
    /\ deps = NoDeps
    /\ nlast = NodeSetIdle
    /\ duo = NoDuo

\* the configurer edits one field of the node set
EditNodeSet ==
    /\ \E n \in NodeSets :
          /\ Cardinality({f \in DOMAIN ns : n[f] # ns[f]}) = 1
          /\ ns' = n
    /\ nlast' = NodeSetIdle
    /\ UNCHANGED <<cr, cluster, last, vin, vout, pst, plast, call, ret, deps, duo>>

\* somebody deletes the Deployment
DeleteDeployment ==
    /\ \E n \in DOMAIN deps : deps' = [m \in DOMAIN deps \ {n} |-> deps[m]]
    /\ nlast' = NodeSetIdle
    /\ UNCHANGED <<cr, cluster, last, vin, vout, pst, plast, call, ret, ns, duo>>

\* somebody scales the Deployment
ScaleDeployment ==
    /\ \E n \in DOMAIN deps, replicas \in 1..MaxReplicas :
          /\ replicas # deps[n].Spec.Replicas
          /\ deps' = [deps EXCEPT ![n].Spec.Replicas = replicas]
    /\ nlast' = NodeSetIdle
    /\ UNCHANGED <<cr, cluster, last, vin, vout, pst, plast, call, ret, ns, duo>>

\* what the reconciliation recorded in nlast did, when it returned no error
DidLast ==
    IF nlast.kind # "reconcile" \/ nlast.err # "" THEN "none"
    ELSE IF nlast.ops = <<>> THEN "nothing" ELSE nlast.ops[1].op

\* what a reconciliation leaves behind
NodeSetResult(r, fault) ==
    /\ deps' = r.deps
    /\ nlast' = [kind |-> "reconcile", requeue |-> r.requeue, err |-> r.err,
                 fault |-> fault, ops |-> r.ops, pre |-> deps, after |-> DidLast]

\* one reconciliation of the node set
ReconcileNodeSet ==
    /\ \E fault \in 0..MaxFault :
          NodeSetResult(reconcileNodeSet(deps, ns, InstanceOf(<<>>), fault), fault)
    /\ UNCHANGED <<cr, cluster, last, vin, vout, pst, plast, call, ret, ns, duo>>

NextNodeSet == EditNodeSet \/ DeleteDeployment \/ ScaleDeployment \/ ReconcileNodeSet

SpecNodeSet == InitNodeSet /\ [][NextNodeSet]_vars

\* ------------------------------------------- two instances in one namespace
\* Two custom resources of one namespace, one binding each, reconciled by
\* passes that run at the same time: a pass is cut where it has read the
\* secondary secret (the Get of addOrUpdate or removeIfPresent) and has not
\* yet written, and the other instance may act in between.  The store
\* refuses a create of a name that is taken, an update at another version
\* than the one read, and a delete of an object that is gone.  The first
\* instance names its binding so that the two secondary secrets have one
\* name, or so that they have two.
DuoInstance(name, bindingName, resources) ==
    [Name |-> name, UID |-> "uid-" \o name,
     BackingServices |-> <<BackingService(bindingName, resources, "")>>]

\* a value mount of either path of Service svc, or a mount of a ConfigMap
\* key, which puts nothing into the secondary secret
DuoResources == {<<SvcRef(<<PSvc>>)>>, <<SvcRef(<<PSvcPort>>)>>, <<CmRef(<<PMntCm>>)>>}

DuoPairs ==
    {<<DuoInstance("nux", n, r1), DuoInstance("nux-secondary", "b1", r2)>> :
        n \in {"secondary-b1", "b1"}, r1 \in DuoResources, r2 \in DuoResources}

DuoSecretOf(instance) == defaultSecondarySecret(instance, instance.BackingServices[1])

DuoKeys ==
    {<<".v1.service", "svc">>}
        \cup {SecretKey(DuoSecretOf(pair[i]).Name) : pair \in DuoPairs, i \in {1, 2}}

DuoCluster ==
    [k \in DuoKeys |-> IF k[1] = ".v1.service"
                       THEN Obj(1, UpstreamData(k, 1), EmptyAnn, {})
                       ELSE NoObj]

\* what a pass holds between its read of the secondary secret and its write
MidOf(got, sec) ==
    [pc |-> "got", err |-> "", sec |-> sec, res |-> got.res, obj |-> got.obj]

NoMid == [pc |-> "idle", err |-> "", sec |-> DuoSecretOf(DuoInstance("", "", <<>>)),
          res |-> "none", obj |-> NoObj]

\* configureBackingService up to the Get of reconcileSecondary
ReadOf(r) ==
    IF r.err # "" THEN [NoMid EXCEPT !.err = r.err]
    ELSE MidOf(ClientGet(r.st, SecretKey(r.st.sec.Name)), r.st.sec)

DuoAfterRead(p, m) ==
    [duo EXCEPT !.pc[p] = m.pc, !.mid[p] = m, !.err[p] = m.err, !.passes[p] = @ + 1]

InitDuo ==
    /\ cr = <<>>
    /\ cluster = DuoCluster
    /\ last = Idle(cluster)
    /\ vin = CaRef(<<>>)
    /\ vout = "none"
    /\ pst = ApplyStart(<<>>)
    /\ plast = ApplyIdle(pst)
    /\ call = NoCall
    /\ ret = NoRet
    /\ ns = NodeSet0
    /\ deps = NoDeps
    /\ nlast = NodeSetIdle
    /\ duo \in {[inst |-> pair, pc |-> <<"idle", "idle">>, mid |-> <<NoMid, NoMid>>,
                 err |-> <<"", "">>, passes |-> <<0, 0>>, clock |-> 1, ops |-> <<>>] :
                    pair \in DuoPairs}

\* the binding of an instance is edited to declare another resource
DuoEdit ==
    /\ \E p \in {1, 2}, r \in DuoResources :
          /\ duo.pc[p] = "idle"
          /\ r # duo.inst[p].BackingServices[1].Resources
          /\ duo' = [duo EXCEPT !.inst[p].BackingServices[1].Resources = r]
    /\ UNCHANGED <<cr, cluster, last, vin, vout, pst, plast, call, ret, ns, deps, nlast>>

\* a pass of instance p starts: it applies the projections of its binding
\* and gets the secondary secret
DuoRead ==
    /\ \E p \in {1, 2} :
          /\ duo.pc[p] = "idle"
          /\ duo.passes[p] < MaxPasses
          /\ duo' = DuoAfterRead(p,
                 ReadOf(ApplyResources(
                     [PassState(cluster, Dep0, 0) EXCEPT !.sec = DuoSecretOf(duo.inst[p])],
                     duo.inst[p].BackingServices[1], 1)))
    /\ UNCHANGED <<cr, cluster, last, vin, vout, pst, plast, call, ret, ns, deps, nlast>>

\* the write reconcileSecondary decides on from what the pass has read
IntentOf(instance, m, store) ==
    IF Cardinality(DOMAIN m.sec.data) # 0
    THEN AddOrUpdateOfGot([st |-> PassState(store, Dep0, 0), res |-> m.res, obj |-> m.obj],
                          m.sec.Name, m.sec)
    ELSE RemoveOfGot([st |-> PassState(store, Dep0, 0), res |-> m.res, obj |-> m.obj],
                     instance, m.sec.Name)

\* the store refuses the write o of a pass that read object `read`
Refused(o, read, store) ==
    \/ o.op = "create" /\ store[o.key].exists
    \/ o.op = "update" /\ (~store[o.key].exists \/ store[o.key].rv # read.rv)
    \/ o.op = "delete" /\ ~store[o.key].exists

\* the store after write o of the intent, stamped with a new version
StoreAfter(o, intent, store, rv) ==
    [store EXCEPT ![o.key] = IF o.op = "delete" THEN NoObj
                             ELSE [intent.st.cluster[o.key] EXCEPT !.rv = rv]]

DuoDone(p, err) == [duo EXCEPT !.pc[p] = "idle", !.mid[p] = NoMid, !.err[p] = err]

DuoWrote(p, o, held) ==
    [DuoDone(p, "") EXCEPT !.clock = @ + 1,
                           !.ops = Append(@, [who |-> p, op |-> o.op, key |-> o.key,
                                              pre |-> held])]

Commit(p, intent) ==
    IF intent.st.ops = <<>>
    THEN /\ duo' = DuoDone(p, intent.err)
         /\ cluster' = cluster
    ELSE IF Refused(intent.st.ops[1], duo.mid[p].obj, cluster)
         THEN /\ duo' = DuoDone(p, "conflict")
              /\ cluster' = cluster
         ELSE /\ duo' = DuoWrote(p, intent.st.ops[1], cluster[intent.st.ops[1].key])
              /\ cluster' = StoreAfter(intent.st.ops[1], intent, cluster, duo.clock + 1)

\* the pass of instance p in flight writes and ends
DuoWrite ==
    /\ \E p \in {1, 2} :
          /\ duo.pc[p] = "got"
          /\ Commit(p, IntentOf(duo.inst[p], duo.mid[p], cluster))
    /\ UNCHANGED <<cr, last, vin, vout, pst, plast, call, ret, ns, deps, nlast>>

NextDuo == DuoEdit \/ DuoRead \/ DuoWrite

SpecDuo == InitDuo /\ [][NextDuo]_vars

\* ------------------------------------------------------ reading a pass back
\* the key of the secondary secret of binding b
SecondaryKeyOf(b) == SecretKey(defaultSecondarySecret(InstanceOf(cr), b).Name)

\* the object store c holds under a key: none under a key it does not know
ObjAt(c, key) == IF key \in DOMAIN c THEN c[key] ELSE NoObj

\* the key of the upstream object a resource reference names
UpstreamKeyOf(resource) == <<GvkOf(resource), resource.Name>>

\* the version token of a resource in store c: empty (0) when it is absent
TokenOf(c, resource) ==
    LET k == UpstreamKeyOf(resource) IN
    IF k \in DOMAIN c /\ c[k].exists THEN c[k].rv ELSE 0

\* projection k of resource j of binding b goes to the transform handler
IsTransformRef(b, j, k) ==
    LET resource == b.Resources[j]
        p == resource.Projections[k]
    IN /\ ~((isSecret(resource) \/ isConfigMap(resource)) /\ p.Env # "")
       /\ p.Mount = ""
       /\ p.Transform # NoTransform

TransformRefs(b) ==
    {jk \in UNION {{<<j, k>> : k \in 1..Len(b.Resources[j].Projections)} :
                       j \in 1..Len(b.Resources)} :
        IsTransformRef(b, jk[1], jk[2])}

\* every projection of b is an environment variable or a mount of a Secret
\* or ConfigMap key
IsPlainBinding(b) ==
    \A j \in 1..Len(b.Resources) :
        LET resource == b.Resources[j] IN
        /\ isSecret(resource) \/ isConfigMap(resource)
        /\ \A k \in 1..Len(resource.Projections) :
              LET p == resource.Projections[k] IN
              p.Transform = NoTransform /\ (p.Env # "" \/ p.Mount # "")

\* store c holds a cache entry for the resource at its present version
CacheIsCurrent(c, b, resource) ==
    LET sec == ObjAt(c, SecondaryKeyOf(b))
        ann == genAnnotationKey(resource)
    IN sec.exists /\ ann \in DOMAIN sec.ann /\ sec.ann[ann] = TokenOf(c, resource)

Events(ev, name) ==
    {i \in 1..Len(last.log) : last.log[i].ev = ev /\ last.log[i].name = name}

OpsOn(key) == {i \in 1..Len(last.ops) : last.ops[i].key = key}

OwnedBy(obj) == obj.exists /\ InstanceOf(cr).UID \in obj.owners

BindingsOfCR == {cr[i] : i \in 1..Len(cr)}

PassDone == last.kind = "pass"

PassOk == last.kind = "pass" /\ last.err = ""

\* ------------------------------------------------------------------ claims
\* C1: when a pass runs while the secondary secret exists and carries, for the
\* transformed resource, an annotation equal to the resource's present
\* version token, the password held in the secondary secret after the pass is
\* the one held before it and the transform does not run; a pass that
\* succeeds has copied the cached entry into the draft.
C1_CacheHitKeepsPassword ==
    PassDone =>
        \A b \in BindingsOfCR : \A jk \in TransformRefs(b) :
            LET resource == b.Resources[jk[1]]
                passKey == resource.Projections[jk[2]].Transform.Password
                key == SecondaryKeyOf(b)
            IN CacheIsCurrent(last.pre, b, resource) =>
                  /\ MapGet(ObjAt(cluster, key).data, passKey) = MapGet(ObjAt(last.pre, key).data, passKey)
                  /\ \A i \in Events("miss", b.Name) : last.log[i].key # passKey
                  /\ last.err = "" =>
                        \E i \in Events("hit", b.Name) : last.log[i].key = passKey

\* C2: when a pass that succeeds runs while the secondary secret is absent,
\* lacks the resource's annotation, or carries another version than the
\* resource's present one, the secondary secret afterwards carries the present
\* version, a store built from the present value, and a password it did not
\* hold before; the password it held before is gone from it.
C2_CacheMissRotates ==
    PassOk =>
        \A b \in BindingsOfCR : \A jk \in TransformRefs(b) :
            LET resource == b.Resources[jk[1]]
                transform == resource.Projections[jk[2]].Transform
                key == SecondaryKeyOf(b)
                old == MapGet(ObjAt(last.pre, key).data, transform.Password)
                now == MapGet(ObjAt(cluster, key).data, transform.Password)
                ver == TokenOf(last.pre, resource)
            IN ~CacheIsCurrent(last.pre, b, resource) =>
                  /\ ObjAt(cluster, key).exists
                  /\ MapGet(ObjAt(cluster, key).ann, genAnnotationKey(resource)) = ver
                  /\ now # Nil /\ now.kind = "pass"
                  /\ now.pw \notin PwsOfData(ObjAt(last.pre, key).data)
                  /\ old # Nil => \A k \in DOMAIN ObjAt(cluster, key).data :
                                     ObjAt(cluster, key).data[k] # old
                  /\ MapGet(ObjAt(cluster, key).data, transform.Store)
                        = StoreOf(Raw(resource.Name, ver), now.pw)

\* a secondary secret holding a password was out of date and got a new one
C2_Rotated ==
    /\ PassOk
    /\ \E b \in BindingsOfCR : \E jk \in TransformRefs(b) :
          LET resource == b.Resources[jk[1]]
              passKey == resource.Projections[jk[2]].Transform.Password
              key == SecondaryKeyOf(b)
          IN /\ ~CacheIsCurrent(last.pre, b, resource)
             /\ passKey \in DOMAIN ObjAt(last.pre, key).data
             /\ OwnedBy(ObjAt(last.pre, key))
             /\ ObjAt(cluster, key).data[passKey] # ObjAt(last.pre, key).data[passKey]

\* C3: a pass that follows a successful pass, with the custom resource and
\* the upstream objects unchanged in between, issues no create, update or
\* delete, leaves the store as it is and builds the same deployment.
C3_SecondPassIsNoOp ==
    [][(PassOk /\ last'.kind = "pass" /\ last'.err = "")
          => (last'.ops = <<>> /\ cluster' = cluster /\ last'.dep = last.dep)]_vars

\* C4: after a successful pass, for every binding name, a secondary secret
\* owned by the instance exists exactly when the custom resource declares a
\* binding of that name whose projections yield at least one data entry.
\* Names somebody else's Secret sits on are left out.
C4_SecretIffYields ==
    PassOk =>
        \A key \in SecondaryKeys :
            (\A k \in SecondaryKeys : ObjAt(last.pre, k).exists => OwnedBy(ObjAt(last.pre, k))) =>
                (OwnedBy(ObjAt(cluster, key))
                    <=> \E b \in BindingsOfCR :
                            /\ SecondaryKeyOf(b) = key
                            /\ \E i \in Events("reconcile", key[2]) :
                                  last.log[i].data # EmptyData)

\* C5: when a successful pass runs over a binding that declares no transform
\* and no mount of another kind of resource, while a secondary secret of that
\* binding owned by the instance exists, the pass deletes the secret.
C5_LastTransformRemoved ==
    PassOk =>
        \A b \in BindingsOfCR :
            LET key == SecondaryKeyOf(b) IN
            (IsPlainBinding(b) /\ OwnedBy(ObjAt(last.pre, key))) =>
                /\ ~ObjAt(cluster, key).exists
                /\ \E i \in OpsOn(key) : last.ops[i].op = "delete"

\* a secondary secret written for a transform is deleted by a pass over the
\* binding with the transform gone
C5_Deleted ==
    /\ PassOk
    /\ \E b \in BindingsOfCR :
          LET key == SecondaryKeyOf(b) IN
          /\ IsPlainBinding(b)
          /\ OwnedBy(ObjAt(last.pre, key))
          /\ DOMAIN ObjAt(last.pre, key).ann # {}
          /\ ~ObjAt(cluster, key).exists

\* C6: a pass over a binding whose projections are all environment variables
\* or mounts of Secret or ConfigMap keys reconciles an empty secondary secret
\* draft, and the only operation it issues on the secondary secret is a
\* delete: it neither creates nor updates one.
C6_PlainBindingNeverCreates ==
    PassDone =>
        \A b \in BindingsOfCR :
            LET key == SecondaryKeyOf(b) IN
            IsPlainBinding(b) =>
                /\ \A i \in Events("reconcile", key[2]) : last.log[i].data = EmptyData
                /\ \A i \in OpsOn(key) : last.ops[i].op = "delete"
                /\ ~ObjAt(last.pre, key).exists => ~ObjAt(cluster, key).exists

\* a pass reconciled a plain binding that had no secondary secret
C6_PlainReconciled ==
    /\ PassOk
    /\ \E b \in BindingsOfCR :
          /\ IsPlainBinding(b)
          /\ ~ObjAt(last.pre, SecondaryKeyOf(b)).exists
          /\ Events("reconcile", SecondaryKeyOf(b)[2]) # {}

\* C7: a pass that returns an error has issued no create, update or delete:
\* the store, the secondary secrets of the bindings before the failing one
\* included, is as it was before the pass.
C7_FailClosed ==
    (PassDone /\ last.err # "") => (last.ops = <<>> /\ cluster = last.pre)

\* C8: a delete is only ever issued on an object that exists and is owned by
\* the instance; a pass whose cluster calls all succeed and that reconciles an
\* empty draft while the secondary secret is absent or owned by somebody else
\* leaves that secret as it was, issues nothing on it, and returns no error
\* from the removal.
C8_RemoveOnlyOwned ==
    PassDone =>
        /\ \A i \in 1..Len(last.ops) :
              last.ops[i].op = "delete" => OwnedBy(ObjAt(last.pre, last.ops[i].key))
        /\ \A b \in BindingsOfCR :
              LET key == SecondaryKeyOf(b) IN
              (/\ last.fault = 0
               /\ ~OwnedBy(ObjAt(last.pre, key))
               /\ \E i \in Events("reconcile", key[2]) : last.log[i].data = EmptyData)
                 => /\ ObjAt(cluster, key) = ObjAt(last.pre, key)
                    /\ OpsOn(key) = {}
                    /\ (cr[Len(cr)] = b => last.err = "")

\* a pass reconciled an empty draft over somebody else's Secret
C8_ForeignSurvives ==
    /\ PassOk
    /\ \E b \in BindingsOfCR :
          LET key == SecondaryKeyOf(b) IN
          /\ ObjAt(last.pre, key).exists
          /\ ~OwnedBy(ObjAt(last.pre, key))
          /\ \E i \in Events("reconcile", key[2]) : last.log[i].data = EmptyData
          /\ ObjAt(cluster, key) = ObjAt(last.pre, key)

Targets(p) ==
    (IF p.Env # "" THEN 1 ELSE 0) + (IF p.Mount # "" THEN 1 ELSE 0)
        + (IF p.Transform # NoTransform THEN 1 ELSE 0)

\* C9: the validator accepts a resource only if each of its projections names
\* exactly one target: an environment variable, a mount or a transform.
C9_ExactlyOneTarget ==
    vout = "valid" =>
        \A k \in 1..Len(vin.Projections) : Targets(vin.Projections[k]) = 1

\* the kind names a Secret or a ConfigMap, in any case
IsSecretOrConfigMap(resource) ==
    /\ resource.Group = "" /\ ToLower(resource.Version) = "v1"
    /\ ToLower(resource.Kind) \in {"secret", "configmap"}

\* C10: the validator accepts a resource only if every projection of a Secret
\* or ConfigMap names a key and no path, and every projection of another kind
\* names a path, no key and no environment variable; the kind is compared
\* without regard to case.
C10_Addressing ==
    vout = "valid" =>
        \A k \in 1..Len(vin.Projections) :
            LET p == vin.Projections[k] IN
            IF IsSecretOrConfigMap(vin)
            THEN p.Key # "" /\ p.Path = ""
            ELSE p.Path # "" /\ p.Key = "" /\ p.Env = ""

\* a Secret spelled with a capital is accepted with two projections
C10_Accepted ==
    /\ vout = "valid"
    /\ Len(vin.Projections) = 2
    /\ vin.Kind = "Secret"

\* the validator rejects resource j of binding b
InvalidResource(b, j) ==
    ~projectionsAreValid(GvkOf(b.Resources[j]), b.Resources[j].Projections)

\* binding i of the custom resource is rejected, as a whole or in a resource
OffendingAt(i) ==
    \/ ~backingSvcIsValid(cr[i])
    \/ \E j \in 1..Len(cr[i].Resources) : InvalidResource(cr[i], j)

\* the deployment draft d carries what projection p of the resource would add
AppliedIn(d, resource, p) ==
    \/ p.Env # "" /\ \E e \in 1..Len(d.env) : d.env[e].Name = p.Env
    \/ p.Mount # "" /\ \E v \in 1..Len(d.volumes) :
          \E x \in 1..Len(d.volumes[v].Sources) :
              /\ d.volumes[v].Sources[x].Name = resource.Name
              /\ \E y \in 1..Len(d.volumes[v].Sources[x].Items) :
                    d.volumes[v].Sources[x].Items[y].Path = p.Mount
    \/ p.Transform # NoTransform /\ \E e \in 1..Len(d.env) :
          d.env[e].Name = p.Transform.PassEnv

\* the pass did nothing for binding b: no projection, no reconcile, no write
Untouched(b) ==
    /\ Events("reconcile", SecondaryKeyOf(b)[2]) = {}
    /\ Events("hit", b.Name) = {} /\ Events("miss", b.Name) = {}
    /\ OpsOn(SecondaryKeyOf(b)) = {}
    /\ \A j \in 1..Len(b.Resources) : \A k \in 1..Len(b.Resources[j].Projections) :
          ~AppliedIn(last.dep, b.Resources[j], b.Resources[j].Projections[k])

\* C11: a pass over a custom resource whose first offending binding is
\* binding i returns an error and an empty configuration string, has applied
\* no projection of the rejected resource, has not reconciled the secondary
\* secret of binding i, and has done nothing for any later binding.
C11_InvalidSurfaced ==
    PassDone =>
        \A i \in 1..Len(cr) :
            (OffendingAt(i) /\ \A k \in 1..(i - 1) : ~OffendingAt(k)) =>
                /\ last.err # ""
                /\ last.conf = ""
                /\ Events("reconcile", SecondaryKeyOf(cr[i])[2]) = {}
                /\ OpsOn(SecondaryKeyOf(cr[i])) = {}
                /\ \A j \in 1..Len(cr[i].Resources) :
                      InvalidResource(cr[i], j) =>
                          \A k \in 1..Len(cr[i].Resources[j].Projections) :
                              ~AppliedIn(last.dep, cr[i].Resources[j],
                                         cr[i].Resources[j].Projections[k])
                /\ \A k \in (i + 1)..Len(cr) : Untouched(cr[k])

\* a pass stopped at a rejected resource, after applying the resource before
\* it, with a well-formed binding still to come
C11_StoppedAtInvalid ==
    /\ PassDone
    /\ last.err = "invalid-projections"
    /\ Len(cr) = 2
    /\ OffendingAt(1) /\ ~OffendingAt(2)
    /\ Len(last.dep.env) = 1

\* ------------------------------------------- reading a projection step back
\* a projection has been applied and returned no error
Applied == plast.n > 0 /\ plast.err = ""

\* the one projection of the resource applied last
LastProjection == plast.resource.Projections[1]

\* the last step mounted a key of a Secret or ConfigMap
ObjectMount ==
    /\ plast.n > 0
    /\ isSecret(plast.resource) \/ isConfigMap(plast.resource)
    /\ LastProjection.Mount # ""

BindingVolume == "backing-" \o ToLower(ApplyBinding.Name)

VolumesNamed(d, name) == {i \in 1..Len(d.volumes) : d.volumes[i].Name = name}

\* the source entries of volume vol that project the object (kind, name)
SourcesOn(vol, kind, name) ==
    {x \in 1..Len(vol.Sources) :
        vol.Sources[x].Kind = kind /\ vol.Sources[x].Name = name}

ItemsOf(src) == {src.Items[y] : y \in 1..Len(src.Items)}

\* the items that the volumes of draft d named volume project from the
\* object (kind, name)
ItemsOn(d, volume, kind, name) ==
    UNION {UNION {ItemsOf(d.volumes[i].Sources[x]) :
                     x \in SourcesOn(d.volumes[i], kind, name)} :
              i \in VolumesNamed(d, volume)}

LastKind == IF isSecret(plast.resource) THEN "secret" ELSE "configmap"

LastItem == KeyToPath(LastProjection.Key, LastProjection.Mount)

\* what the binding's volume projected from the object of the last step
\* before that step
HeldBefore == ItemsOn(plast.before.dep, BindingVolume, LastKind, plast.resource.Name)

\* C12: when a mount of a Secret or ConfigMap key is applied without error
\* and the binding's volume already projected other keys (and not this key)
\* of the same object, the deployment afterwards has a single volume named
\* for the binding, and one source entry of it for that object lists the
\* items held before together with the new item.
C12_MergeYieldsUnion ==
    (/\ ObjectMount /\ Applied
     /\ HeldBefore # {}
     /\ \A it \in HeldBefore : it.Key # LastItem.Key)
    => /\ Cardinality(VolumesNamed(pst.dep, BindingVolume)) = 1
       /\ \A i \in VolumesNamed(pst.dep, BindingVolume) :
             \E x \in SourcesOn(pst.dep.volumes[i], LastKind, plast.resource.Name) :
                 HeldBefore \cup {LastItem} \subseteq ItemsOf(pst.dep.volumes[i].Sources[x])

\* C13: a mount of key x at path y, applied when the binding's volume
\* already projects key x of the same object at another path, returns an
\* error.
C13_MergeCollisionIsError ==
    (/\ ObjectMount
     /\ \E it \in HeldBefore : it.Key = LastItem.Key /\ it.Path # LastItem.Path)
    => plast.err # ""

\* C14: a mount whose object, key and path the binding's volume already
\* projects returns no error and leaves the volumes of the deployment as
\* they were.
C14_IdenticalItemIsNoOp ==
    (ObjectMount /\ LastItem \in HeldBefore)
    => plast.err = "" /\ pst.dep.volumes = plast.before.dep.volumes

\* C15: once a mount or transform projection has been applied, the
\* deployment holds exactly one volume named for the binding, and no two
\* source entries of that volume project the same object.
C15_OneSourcePerObject ==
    /\ Cardinality(VolumesNamed(pst.dep, BindingVolume)) <= 1
    /\ (Applied /\ (LastProjection.Mount # "" \/ LastProjection.Transform # NoTransform))
          => Cardinality(VolumesNamed(pst.dep, BindingVolume)) = 1
    /\ \A i \in VolumesNamed(pst.dep, BindingVolume) :
          \A x, y \in 1..Len(pst.dep.volumes[i].Sources) :
              sameSrc(pst.dep.volumes[i].Sources[x], pst.dep.volumes[i].Sources[y])
                  => x = y

\* the last step was an environment-variable projection
EnvProjection == plast.n > 0 /\ LastProjection.Env # ""

\* C16: an environment-variable projection whose name the nuxeo container
\* already carries, from the node set or from an earlier projection,
\* returns an error and leaves the container's variables as they were.
C16_DuplicateEnvIsFatal ==
    (EnvProjection /\ HasEnv(plast.before.dep, LastProjection.Env))
    => plast.err # "" /\ pst.dep.env = plast.before.dep.env

\* the name was taken by an earlier projection and the second one failed
C16_SecondWriterRejected ==
    /\ EnvProjection
    /\ plast.n >= 2
    /\ HasEnv(plast.before.dep, LastProjection.Env)
    /\ plast.err = "dup-env"
    /\ \A e \in 1..Len(pst.dep.env) : pst.dep.env[e] # NodeSetEnv

\* C17: an environment-variable projection on a Secret or ConfigMap that
\* returns no error has appended exactly one variable, named by the
\* projection and referencing the resource by name and key (secretKeyRef for
\* a Secret, configMapKeyRef for a ConfigMap); whether it fails or not it
\* leaves the volumes, the volume mounts and the secondary secret draft
\* alone and makes no cluster call.
C17_EnvProjectionFrame ==
    EnvProjection =>
        /\ plast.err = "" =>
              pst.dep.env =
                  Append(plast.before.dep.env,
                         [Name |-> LastProjection.Env,
                          From |-> IF ToLower(plast.resource.Kind) = "secret"
                                   THEN "secretKeyRef" ELSE "configMapKeyRef",
                          Ref |-> plast.resource.Name,
                          Key |-> LastProjection.Key])
        /\ pst.dep.volumes = plast.before.dep.volumes
        /\ pst.dep.mounts = plast.before.dep.mounts
        /\ pst.sec = plast.before.sec
        /\ pst.calls = plast.before.calls
        /\ pst.ops = plast.before.ops
        /\ pst.cluster = plast.before.cluster

\* a variable from a ConfigMap key was appended behind volumes and mounts
\* that earlier projections had added
C17_ConfigMapEnvAppended ==
    /\ EnvProjection /\ Applied
    /\ isConfigMap(plast.resource)
    /\ plast.before.dep.volumes # <<>>
    /\ Len(pst.dep.env) = Len(plast.before.dep.env) + 1

\* C18: after a pass that returned no error, for every transform projection
\* of every binding: the secondary secret draft, as the projection left it,
\* holds a store under the store key and that store's password under the
\* password key; a source entry of the binding's volume on the secondary
\* secret lists both keys, each at the path equal to the key; and the nuxeo
\* container has a variable named by passEnv that references the password
\* key of the secondary secret.
C18_TransformArtifacts ==
    PassOk =>
        \A n \in 1..Len(cr) : \A jk \in TransformRefs(cr[n]) :
            LET b == cr[n]
                t == b.Resources[jk[1]].Projections[jk[2]].Transform
                sec == SecondaryKeyOf(b)[2]
            IN
            /\ \E i \in Events("hit", b.Name) \cup Events("miss", b.Name) :
                  /\ last.log[i].key = t.Password
                  /\ MapGet(last.log[i].data, t.Store).kind = "store"
                  /\ MapGet(last.log[i].data, t.Password).kind = "pass"
                  /\ MapGet(last.log[i].data, t.Store).pw
                        = MapGet(last.log[i].data, t.Password).pw
            /\ \E i \in VolumesNamed(last.dep, "backing-" \o ToLower(b.Name)) :
                  \E x \in SourcesOn(last.dep.volumes[i], "secret", sec) :
                      {[Key |-> t.Store, Path |-> t.Store],
                       [Key |-> t.Password, Path |-> t.Password]}
                          \subseteq ItemsOf(last.dep.volumes[i].Sources[x])
            /\ \E e \in 1..Len(last.dep.env) :
                  last.dep.env[e] = [Name |-> t.PassEnv, From |-> "secretKeyRef",
                                     Ref |-> sec, Key |-> t.Password]

\* the last step mounted a value of a resource that is neither a Secret nor
\* a ConfigMap
ValueMount ==
    /\ plast.n > 0
    /\ ~isSecret(plast.resource) /\ ~isConfigMap(plast.resource)
    /\ LastProjection.Mount # ""

\* the path expressions of the inputs with the characters outside
\* [-._a-zA-Z0-9] taken out by hand
SanitizedPath(path) ==
    CASE path = "{.spec.clusterIP}" -> ".spec.clusterIP"
      [] path = "{.spec.ports[0].port}" -> ".spec.ports0.port"

\* C19: after a mount projection on a resource that is neither a Secret nor
\* a ConfigMap has returned no error, the secondary secret draft holds the
\* value found at the path under the sanitized path, every other entry of
\* the draft is as before, and a source entry of the binding's volume on
\* the secondary secret projects that key at the projection's mount path.
C19_ValueMountGoesThroughSecondary ==
    (ValueMount /\ Applied) =>
        LET key == SanitizedPath(LastProjection.Path) IN
        /\ DOMAIN pst.sec.data = DOMAIN plast.before.sec.data \cup {key}
        /\ key \notin DOMAIN plast.before.sec.data
        /\ pst.sec.data[key] =
              ApplyCluster[<<GvkOf(plast.resource), plast.resource.Name>>]
                  .data[LastProjection.Path]
        /\ \A k \in DOMAIN plast.before.sec.data :
              pst.sec.data[k] = plast.before.sec.data[k]
        /\ \E i \in VolumesNamed(pst.dep, BindingVolume) :
              \E x \in SourcesOn(pst.dep.volumes[i], "secret", pst.sec.Name) :
                  [Key |-> key, Path |-> LastProjection.Mount]
                      \in ItemsOf(pst.dep.volumes[i].Sources[x])

\* the port of the Service was mounted: its path holds brackets and braces
C19_BracketsRemoved ==
    /\ ValueMount /\ Applied
    /\ LastProjection.Path = "{.spec.ports[0].port}"
    /\ ".spec.ports0.port" \in DOMAIN pst.sec.data

Expanded(b) == Translated(b).backing

\* the name of the secondary secret of binding b, spelled out
SecondaryNamed(b) == "nux" \o "-secondary-" \o Expanded(b).Name

\* the keys that the projections of b put into the secondary secret draft when
\* the store before the pass is c: store and password key of every
\* transform, sanitized path of every value mount whose object exists
DraftKeys(c, b) ==
    UNION {UNION {LET resource == Expanded(b).Resources[j]
                      p == resource.Projections[k]
                  IN IF IsTransformRef(Expanded(b), j, k)
                     THEN {p.Transform.Store, p.Transform.Password}
                     ELSE IF /\ ~isSecret(resource) /\ ~isConfigMap(resource)
                             /\ p.Mount # ""
                             /\ ObjAt(c, UpstreamKeyOf(resource)).exists
                          THEN {SanitizedPath(p.Path)}
                          ELSE {} :
                  k \in 1..Len(Expanded(b).Resources[j].Projections)} :
           j \in 1..Len(Expanded(b).Resources)}

\* C21: in every pass, every create, update and delete is on the Secret
\* named <instance>-secondary-<binding> of a binding of the custom resource,
\* every draft handed to reconciliation carries such a name, and the draft
\* of a binding holds the keys of all its transform projections and of all
\* its value mounts; once the pass succeeded, the cluster holds a Secret of
\* that name with those keys, owned by the instance.
C21_OneSecondaryPerBinding ==
    PassDone =>
        /\ \A i \in 1..Len(last.ops) :
              \E n \in 1..Len(cr) :
                  last.ops[i].key = <<".v1.secret", SecondaryNamed(cr[n])>>
        /\ \A i \in 1..Len(last.log) :
              last.log[i].ev = "reconcile" =>
                  \E n \in 1..Len(cr) :
                      /\ last.log[i].name = SecondaryNamed(cr[n])
                      /\ DOMAIN last.log[i].data = DraftKeys(last.pre, cr[n])
        /\ PassOk =>
              \A n \in 1..Len(cr) :
                  DraftKeys(last.pre, cr[n]) # {} =>
                      LET held == ObjAt(cluster, <<".v1.secret", SecondaryNamed(cr[n])>>) IN
                      /\ Events("reconcile", SecondaryNamed(cr[n])) # {}
                      /\ held.exists
                      /\ DOMAIN held.data = DraftKeys(last.pre, cr[n])
                      /\ held.owners = {"uid-nux"}

\* the annotation key of the upstream references of the inputs, spelled out
AnnotationNamed(resource) ==
    CASE resource.Name = "ca" -> "nuxeo.operator.v1.secret.ca"
      [] resource.Name = "svc" -> "nuxeo.operator.v1.service.svc"
      [] resource.Name = "creds" -> "nuxeo.operator.v1.secret.creds"
      [] resource.Name = "settings" -> "nuxeo.operator.v1.configmap.settings"
      [] OTHER -> "nuxeo.operator.v1.secret." \o resource.Name

\* the resources of b with a transform projection
Transformed(b) ==
    {Expanded(b).Resources[jk[1]] : jk \in TransformRefs(Expanded(b))}

\* the resources of b other than Secret and ConfigMap, present in store c,
\* of which a projection mounts a value
ValueMounted(c, b) ==
    {Expanded(b).Resources[j] : j \in
        {i \in 1..Len(Expanded(b).Resources) :
            LET resource == Expanded(b).Resources[i] IN
            /\ ~isSecret(resource) /\ ~isConfigMap(resource)
            /\ ObjAt(c, UpstreamKeyOf(resource)).exists
            /\ \E k \in 1..Len(resource.Projections) :
                  /\ resource.Projections[k].Mount # ""
                  /\ ~IsTransformRef(Expanded(b), i, k)}}

\* the secondary secret of binding b in the cluster
HeldFor(b) == ObjAt(cluster, <<".v1.secret", SecondaryNamed(b)>>)

LocatorReturned ==
    call.fn = "getValueFromResource" /\ ret.fn = "getValueFromResource"

\* the resource of the call is a Secret or a ConfigMap
AddressedByKey == ToLower(call.resource.Kind) \in {"secret", "configmap"}

\* the addressing field the kind requires is empty
NoAddress ==
    IF AddressedByKey THEN call.resource.Projections[1].Key = ""
                      ELSE call.resource.Projections[1].Path = ""

\* the object the resource of the call names is in the store
UpstreamThere ==
    ObjAt(cluster, <<".v1." \o ToLower(call.resource.Kind), call.resource.Name>>).exists

\* C23: the locator returns an error without a cluster call when the
\* addressing field its kind requires is empty; otherwise it returns an
\* error when the Get fails for another reason than not-found or when the
\* scheme does not know the kind, a nil value, an empty version and no error
\* when the object is not found, and the object's version when it is found.
C23_LocatorOutcomes ==
    LocatorReturned =>
        /\ NoAddress => ret.err # "" /\ ret.calls = 0
        /\ (~NoAddress /\ call.fault = 1) => ret.err # ""
        /\ (~NoAddress /\ call.fault = 0 /\ ~UpstreamThere
            /\ call.resource.Kind # "Route")
              => ret.err = "" /\ ret.val = Nil /\ ret.ver = 0 /\ ret.calls = 1
        /\ (~NoAddress /\ call.fault = 0 /\ UpstreamThere)
              => ret.err = "" /\ ret.ver = 1 /\ ret.calls = 1
        /\ (~NoAddress /\ call.resource.Kind = "Route")
              => ret.err # "" /\ ret.calls = 0

\* a Service that is not in the store was looked up by path: nothing came
\* back and nothing failed
C23_ServiceNotFound ==
    /\ LocatorReturned
    /\ call.resource.Kind = "Service"
    /\ ~NoAddress
    /\ call.fault = 0
    /\ ~UpstreamThere
    /\ ret.err = "" /\ ret.val = Nil /\ ret.ver = 0

\* the resources of the custom resource whose object the store c lacks
MissingIn(c) ==
    {<<n, j>> \in UNION {{<<m, i>> : i \in 1..Len(cr[m].Resources)} : m \in 1..Len(cr)} :
        ~ObjAt(c, UpstreamKeyOf(cr[n].Resources[j])).exists}

\* C24: a pass over well-formed bindings in which no cluster call failed
\* returns no error, although the store lacked the object of one of the
\* resources when the pass began.
C24_NotFoundDoesNotFail ==
    (/\ PassDone
     /\ last.fault = 0
     /\ \A i \in 1..Len(cr) : ~OffendingAt(i)
     /\ MissingIn(last.pre) # {})
    => last.err = ""

\* the configuration fragment binding b contributes: its own, or the one of
\* the ECK shorthand
FragmentOf(b) ==
    IF b.Preconfigured.Type = "ECK" THEN "elasticsearch.client=RestClient"
                                    ELSE b.NuxeoConf

\* the non-empty strings of a sequence, each on a line of its own
RECURSIVE Lines(_)
Lines(q) ==
    IF q = <<>> THEN ""
    ELSE IF Lines(Tail(q)) = "" THEN Head(q)
         ELSE IF Head(q) = "" THEN Lines(Tail(q))
              ELSE Head(q) \o "\n" \o Lines(Tail(q))

\* C25: a pass that returns no error returns the fragments of the bindings
\* in the order of declaration, the non-empty ones joined by a newline; the
\* fragment of a preconfigured binding is that of its expansion.
C25_ConfIsJoinedFragments ==
    PassOk => last.conf = Lines([n \in 1..Len(cr) |-> FragmentOf(cr[n])])

\* three bindings, the second without a fragment and the third a shorthand:
\* two lines came back
C25_MiddleFragmentSkipped ==
    /\ PassOk
    /\ Len(cr) = 3
    /\ cr[1].NuxeoConf = "b1.conf=1"
    /\ cr[2].Preconfigured.Type = "" /\ cr[2].NuxeoConf = ""
    /\ cr[3].Preconfigured.Type = "ECK"
    /\ last.conf = "b1.conf=1\nelasticsearch.client=RestClient"

\* binding b names a preconfigured type that has no expansion
Unexpandable(b) == b.Preconfigured.Type \notin {"", "ECK"}

\* the outcome of the same pass over the first n bindings only
PrefixPass(n) ==
    configureBackingServices(last.pre, InstanceOf(SubSeq(cr, 1, n)), Dep0, last.fault)

\* the variables of the nuxeo container that read key k of Secret s
EnvReading(s, k) ==
    {i \in 1..Len(last.dep.env) :
        /\ last.dep.env[i].From = "secretKeyRef"
        /\ last.dep.env[i].Ref = s
        /\ last.dep.env[i].Key = k}

\* C26: a pass over a list that holds a binding of a preconfigured type
\* other than ECK (Strimzi, Crunchy, or a type that is no known family)
\* returns an error and no configuration text; nothing is reconciled under
\* the name of that binding, and when the bindings before it went through,
\* the drafts, the calls and the store are those of the pass over these
\* bindings alone.  A binding of type ECK is worked on as its expansion: the
\* pass that succeeds has projected the expansion's variable and has
\* reconciled the secondary secret under the expansion's name, not under the
\* declared one.
C26_PreconfiguredExpandedFirst ==
    PassDone =>
        \A n \in 1..Len(cr) :
            /\ Unexpandable(cr[n]) =>
                  /\ last.err # "" /\ last.conf = ""
                  /\ \A name \in {"nux-secondary-", "nux-secondary-" \o cr[n].Name} :
                        /\ Events("reconcile", name) = {}
                        /\ OpsOn(<<".v1.secret", name>>) = {}
                  /\ PrefixPass(n - 1).err = "" =>
                        /\ last.err = "preconfig"
                        /\ last.dep = PrefixPass(n - 1).st.dep
                        /\ last.ops = PrefixPass(n - 1).st.ops
                        /\ last.log = PrefixPass(n - 1).st.log
                        /\ cluster = PrefixPass(n - 1).st.cluster
            /\ (cr[n].Preconfigured.Type = "ECK" /\ PassOk) =>
                  /\ \E i \in EnvReading("elastic-es-elastic-user", "elastic") :
                        last.dep.env[i].Name = "ELASTIC_PASSWORD"
                  /\ Events("reconcile", "nux-secondary-elastic") # {}
                  /\ Events("reconcile", "nux-secondary-" \o cr[n].Name) = {}

\* the shorthand that is not implemented came third: the first two bindings
\* left their drafts and their secondary secret behind, and the pass failed
C26_FailedAfterTwoBindings ==
    /\ PassDone
    /\ Len(cr) = 3
    /\ cr[3].Preconfigured.Type = "Strimzi"
    /\ cr[1].Preconfigured.Type = "ECK"
    /\ last.err = "preconfig"
    /\ Len(last.ops) > 0
    /\ Len(last.dep.env) > 1

\* the validity check of a binding was called and has returned
BackingChecked == call.fn = "backingSvcIsValid" /\ ret.fn = "backingSvcIsValid"

\* C27: backingSvcIsValid accepts a binding exactly when it carries a
\* preconfigured entry, or both a name and at least one resource; a binding
\* without a preconfigured entry that has no name or no resources is
\* rejected.
C27_ValidNeedsNameAndResources ==
    BackingChecked =>
        (ret.ok <=> \/ call.backing.Preconfigured.Type # ""
                    \/ (call.backing.Name # "" /\ Len(call.backing.Resources) > 0))

\* ------------------------------------------- reading a reconciliation back
\* the node set was reconciled in the last step
NodeSetReconciled == nlast.kind = "reconcile"

\* the name the Deployment of the node set goes by, spelled out
DeploymentNamed == "nux-" \o ns.Name

\* the Deployment of the node set was in the store before the reconciliation
ExistedBefore == DeploymentNamed \in DOMAIN nlast.pre

\* the node set is one a Deployment can be built from
Buildable == ns.NuxeoConf \in {"", "inline"}

\* the Deployment of the node set in the store
Held == deps[DeploymentNamed]

\* the Deployment has a container of that name
HasContainer(dep, name) ==
    \E i \in 1..Len(dep.Spec.Pod.Containers) : dep.Spec.Pod.Containers[i] = name

\* the labels the operator generates for the node set, spelled out
GeneratedLabels ==
    IF ns.Interactive
    THEN [l \in {"app", "nuxeoCr", "interactive"} |->
             CASE l = "app" -> "nuxeo" [] l = "nuxeoCr" -> "nux" [] OTHER -> "true"]
    ELSE [l \in {"app", "nuxeoCr"} |-> IF l = "app" THEN "nuxeo" ELSE "nux"]

\* the spec a Deployment built from the node set has
ExpectedSpec ==
    [Replicas |-> ns.Replicas, Selector |-> GeneratedLabels, Labels |-> GeneratedLabels,
     Pod |-> IF ns.PodSpec # NoPodSpec THEN ns.PodSpec
             ELSE [Containers |-> <<"nuxeo">>,
                   Volumes |-> IF ns.NuxeoConf = "inline" THEN <<"nuxeoconf">> ELSE <<>>]]

\* the Deployment was created under its name with the replica count of the
\* node set, the generated labels, and the pod template's labels added
CreatedAsExpected ==
    /\ nlast.ops = <<[op |-> "create", name |-> DeploymentNamed]>>
    /\ DeploymentNamed \in DOMAIN deps
    /\ Held.Name = DeploymentNamed
    /\ Held.Spec.Replicas = ns.Replicas
    /\ \A l \in DOMAIN GeneratedLabels :
          l \in DOMAIN Held.Spec.Labels /\ Held.Spec.Labels[l] = GeneratedLabels[l]
    /\ \A l \in DOMAIN ns.PodLabels : l \in DOMAIN Held.Spec.Labels
    /\ nlast.requeue
    /\ nlast.err = ""

C29_UpdateConforms ==
    (NodeSetReconciled /\ ExistedBefore /\ nlast.err = "") =>
        /\ DeploymentNamed \in DOMAIN deps
        /\ Held.Spec = ExpectedSpec
        /\ nlast.pre[DeploymentNamed].Spec # ExpectedSpec =>
              nlast.ops = <<[op |-> "update", name |-> DeploymentNamed]>>

\* the replica count of the node set was changed and the Deployment followed
C29_ReplicasFollowed ==
    /\ NodeSetReconciled
    /\ ExistedBefore
    /\ nlast.pre[DeploymentNamed].Spec.Replicas = ns.Replicas - 2
    /\ Len(nlast.ops) = 1 /\ nlast.ops[1].op = "update"
    /\ Held.Spec.Replicas = ns.Replicas

\* C30: a reconciliation that follows one that created or updated the
\* Deployment, the node set and the store untouched in between, issues no
\* create and no update.
C30_SettledIsNoOp ==
    (NodeSetReconciled /\ nlast.after \in {"create", "update"}) =>
        /\ nlast.ops = <<>>
        /\ deps = nlast.pre

\* ------------------------------------------------ the pass of the unit test
\* a pass without a failed call ran over one binding that transforms Secret
\* ca into a trust store and reads a variable from Secret creds, Secret ca
\* being in the store
TransformAndEnvPass ==
    /\ PassDone
    /\ last.fault = 0
    /\ Len(cr) = 1
    /\ Len(cr[1].Resources) = 2
    /\ cr[1].Resources[1].Name = "ca"
    /\ cr[1].Resources[1].Projections[1].Transform # NoTransform
    /\ cr[1].Resources[2].Name = "creds"
    /\ cr[1].Resources[2].Projections[1].Env # ""
    /\ last.pre[<<".v1.secret", "ca">>].exists

StorageConfigured ==
    /\ call.fn = "handleStorage" /\ ret.fn = "handleStorage"
    /\ call.dep.hasNuxeo

\* the entries of the call that get a variable
WithVariable ==
    {i \in 1..Len(call.nodeSet.Storage) :
        call.nodeSet.Storage[i].StorageType \in {"Binaries", "TransientStore"}}

\* the name of the variable of a storage type, spelled out
VariableOf(type) ==
    IF type = "Binaries" THEN "NUXEO_BINARY_STORE" ELSE "NUXEO_TRANSIENT_STORE"

AddOrUpdateReturned == call.fn = "addOrUpdate" /\ ret.fn = "addOrUpdate"

\* the object found differs from the draft in content or annotations
FoundDiffers ==
    call.found.data # call.expected.data \/ call.found.ann # call.expected.ann

\* the one write of the call, on the name of the draft
OneWrite(op) == <<[op |-> op, key |-> <<".v1.secret", call.expected.Name>>]>>

\* C33: addOrUpdate issues at most one write.  When the Get fails, it
\* returns the error and writes nothing; when the object is not found, it
\* issues one Create of the draft; when the object is found and differs,
\* one Update that gives it the draft's content; when it is found and
\* equal, nothing.  A write that fails leaves the store as it was.
C33_AtMostOneWrite ==
    AddOrUpdateReturned =>
        /\ Len(ret.ops) <= 1
        /\ call.fault = 1 => ret.err # "" /\ ret.ops = <<>> /\ ret.held = call.found
        /\ call.fault # 1 =>
              /\ (~call.found.exists /\ call.fault # 2) =>
                    /\ ret.err = "" /\ ret.ops = OneWrite("create")
                    /\ ret.held.exists
                    /\ ret.held.data = call.expected.data
                    /\ ret.held.owners = call.expected.owners
              /\ (call.found.exists /\ FoundDiffers /\ call.fault # 2) =>
                    /\ ret.err = "" /\ ret.ops = OneWrite("update")
                    /\ ret.held.data = call.expected.data
                    /\ ret.held.ann = call.expected.ann
              /\ (call.found.exists /\ ~FoundDiffers) =>
                    ret.err = "" /\ ret.ops = <<>> /\ ret.held = call.found
              /\ ((~call.found.exists \/ FoundDiffers) /\ call.fault = 2) =>
                    ret.err # "" /\ ret.ops = <<>> /\ ret.held = call.found

\* the draft was found as it is: the call made its Get and nothing else
C33_EqualIsNoWrite ==
    /\ AddOrUpdateReturned
    /\ call.found.exists /\ ~FoundDiffers
    /\ ret.calls = 1 /\ ret.ops = <<>> /\ ret.err = ""

\* C34: after a reconciliation that created the Deployment, and after every
\* reconciliation that follows a reconciliation with the node set unchanged,
\* the pod template labels of the Deployment carry the operator's labels
\* with the operator's values and every other label of the node set's pod
\* template with the node set's value.
C34_CustomLabelsKept ==
    (/\ NodeSetReconciled /\ nlast.err = ""
     /\ (~ExistedBefore \/ nlast.after \in {"create", "update", "nothing"})) =>
        /\ DeploymentNamed \in DOMAIN deps
        /\ \A l \in DOMAIN GeneratedLabels :
              l \in DOMAIN Held.Spec.Labels /\ Held.Spec.Labels[l] = GeneratedLabels[l]
        /\ \A l \in DOMAIN ns.PodLabels \ DOMAIN GeneratedLabels :
              l \in DOMAIN Held.Spec.Labels /\ Held.Spec.Labels[l] = ns.PodLabels[l]

\* ------------------------------------------------- dispatch after validation
\* the error of dispatching projection i of the validated resource on the
\* drafts a binding starts with
DispatchError(i) == Dispatch(ApplyStart(<<>>), ApplyBinding, vin, i).err

\* the cases of the switch that projection p of a resource of the validated
\* kind satisfies
CasesOf(p) ==
    (IF IsSecretOrConfigMap(vin) /\ p.Env # "" THEN {"env"} ELSE {})
        \cup (IF p.Mount # "" THEN {"mount"} ELSE {})
        \cup (IF p.Transform # NoTransform THEN {"transform"} ELSE {})

\* C35: every projection of a resource the validator accepts satisfies a
\* case of the switch of configureBackingService, so that it is handed to
\* projectEnvFrom, projectMount or projectTransform and the dispatch never
\* returns the error of the default case.
C35_ValidatedHasHandler ==
    vout = "valid" =>
        \A i \in 1..Len(vin.Projections) :
            /\ CasesOf(vin.Projections[i]) # {}
            /\ DispatchError(i) # "no-handler"

\* a Service with a mount and with a transform alone was accepted
C35_TransformAloneAccepted ==
    /\ vout = "valid"
    /\ vin.Kind = "Service"
    /\ Len(vin.Projections) = 2
    /\ vin.Projections[1].Mount # ""
    /\ vin.Projections[2].Mount = "" /\ vin.Projections[2].Transform # NoTransform
    /\ DispatchError(2) # "no-handler"

\* ------------------------------------------------ writes to the secret draft
\* the last step was handed to projectTransform
TransformStep ==
    /\ plast.n > 0
    /\ ~(IsSecretOrConfigMap(plast.resource) /\ LastProjection.Env # "")
    /\ LastProjection.Mount = ""
    /\ LastProjection.Transform # NoTransform

\* the keys of the draft the handler of the last step writes, in the order
\* of its writes once the value has been read
DraftWrites ==
    IF ValueMount THEN <<SanitizedPath(LastProjection.Path)>>
    ELSE IF TransformStep
         THEN <<LastProjection.Transform.Store, LastProjection.Transform.Password>>
         ELSE <<>>

\* write i of the last step targets a key the draft holds by then
WritesHeldKey(i) ==
    \/ DraftWrites[i] \in DOMAIN plast.before.sec.data
    \/ \E j \in 1..(i - 1) : DraftWrites[j] = DraftWrites[i]

\* C36: a projection whose handler writes the secondary secret draft under
\* a key the draft holds already, from an earlier projection or from an
\* earlier write of the same handler, fails; a projection that succeeds
\* adds one key per write and leaves every earlier entry as it was.
C36_NoDraftKeyWrittenTwice ==
    /\ (\E i \in 1..Len(DraftWrites) : WritesHeldKey(i)) => plast.err # ""
    /\ Applied =>
          /\ Cardinality(DOMAIN pst.sec.data) =
                Cardinality(DOMAIN plast.before.sec.data) + Len(DraftWrites)
          /\ \A k \in DOMAIN plast.before.sec.data :
                pst.sec.data[k] = plast.before.sec.data[k]

\* --------------------------------------------- the stored trust store
\* C37: after a pass that returned no error, for every transform projection
\* of every binding, the secondary secret in the cluster carries the
\* annotation of the transformed resource and holds, under the
\* projection's store key, a store built from the upstream value at the
\* annotated version and, under its password key, the password of that
\* store, whatever the custom resource declared in the pass before.
C37_StoredTrustStore ==
    PassOk =>
        \A b \in BindingsOfCR : \A jk \in TransformRefs(b) :
            LET resource == b.Resources[jk[1]]
                transform == resource.Projections[jk[2]].Transform
                sec == ObjAt(cluster, SecondaryKeyOf(b))
                store == MapGet(sec.data, transform.Store)
                pass == MapGet(sec.data, transform.Password)
            IN /\ sec.exists
               /\ genAnnotationKey(resource) \in DOMAIN sec.ann
               /\ pass.kind = "pass"
               /\ store = StoreOf(Raw(resource.Name, sec.ann[genAnnotationKey(resource)]),
                                  pass.pw)

\* ------------------------------------------------- Secrets of somebody else
\* before the pass a Secret sat under the key and the instance did not own it
ForeignBefore(key) ==
    /\ ObjAt(last.pre, key).exists
    /\ InstanceOf(cr).UID \notin ObjAt(last.pre, key).owners

\* C38: a pass that finds, under the name of a binding's secondary secret, a
\* Secret without an owner reference to the instance issues no write on
\* that name, leaves the Secret as it found it and takes no cache hit from
\* it for the binding.
C38_ForeignSecretUntouched ==
    PassDone =>
        \A b \in BindingsOfCR :
            ForeignBefore(SecondaryKeyOf(b)) =>
                /\ OpsOn(SecondaryKeyOf(b)) = {}
                /\ ObjAt(cluster, SecondaryKeyOf(b)) = ObjAt(last.pre, SecondaryKeyOf(b))
                /\ Events("hit", b.Name) = {}

\* ------------------------------------------------- isolation of bindings
\* the drafts handed to reconcileSecondary in the last pass, in the order of
\* the bindings
Reconciles == {i \in 1..Len(last.log) : last.log[i].ev = "reconcile"}

\* the volumes binding n of the list gets when it is the only binding of
\* the instance, on the store the pass started from
VolumesAlone(n) ==
    configureBackingServices(last.pre, InstanceOf(<<cr[n]>>), Dep0, 0).st.dep.volumes

\* the volumes of the first n bindings, each configured alone
RECURSIVE VolumesApart(_)
VolumesApart(n) == IF n = 0 THEN <<>> ELSE VolumesApart(n - 1) \o VolumesAlone(n)

\* C39: after a pass that returned no error, the secondary secret that a
\* binding created or kept holds the draft of that binding, so that no
\* binding after it updated or deleted it, and the volumes of the
\* deployment are the volumes of the bindings one after the other, each as
\* the binding gets it when it is configured alone, so that no binding
\* merged a projection into the volume of another, whatever the names of
\* the bindings of the list.
C39_BindingsIsolated ==
    PassOk =>
        /\ \A i \in Reconciles :
              last.log[i].data # EmptyData =>
                  /\ ObjAt(cluster, SecretKey(last.log[i].name)).exists
                  /\ ObjAt(cluster, SecretKey(last.log[i].name)).data = last.log[i].data
        /\ last.dep.volumes = VolumesApart(Len(cr))

\* ------------------------------------------------ isolation of instances
\* C40: under every interleaving of the passes of two instances of one
\* namespace, every update and every delete that a pass issues is on a
\* Secret that carries an owner reference to the instance of that pass, and
\* every create is on a name no Secret had: no pass writes the secondary
\* secret of the other instance, whatever the two instances and their
\* bindings are named.
C40_InstancesIsolated ==
    \A i \in 1..Len(duo.ops) :
        duo.ops[i].pre.exists =>
            duo.inst[duo.ops[i].who].UID \in duo.ops[i].pre.owners

====
